---- MODULE Spec2Model ----
(***************************************************************************)
(* Model of the on-device vehicle / licence-plate preprocessing pipeline:  *)
(*   - ImageProcessingService : the four heuristic detectors               *)
(*   - VehicleDetectionService: the orchestrator (processImage, config,    *)
(*     cloud readiness, auto upload)                                       *)
(*   - CloudUploadService     : uploadWithRetry                            *)
(*                                                                         *)
(* The specifications share the variables:                                 *)
(*   SpecImage  the four detectors applied, in processImage's order, to    *)
(*              each image of a bounded family;                            *)
(*   Spec       the detection service: initialize, setConfig, dispose,     *)
(*              processImage step by step (its awaits are the steps),      *)
(*              uploadToCloud, the tensors alive, numeric failures;        *)
(*   SpecRetry  one uploadWithRetry call against a transport that may fail;*)
(*   SpecPair   two processImage calls in flight at once;                  *)
(*   SpecConfig one processImage call in flight while the host calls       *)
(*              setConfig;                                                 *)
(*   SpecColor  the colour classifier's functions applied to bounded sets  *)
(*              of HSL triples, RGB triples and small images.              *)
(*                                                                         *)
(* Numbers.  The detectors compute in floating point.  The model computes  *)
(* the same expressions in exact rational arithmetic on integers: a pixel  *)
(* coordinate that the code keeps as a fraction of a pixel is kept here in *)
(* fixed units (1/400 pixel for the plate scan, 1/100 pixel for the logo   *)
(* scan), a quotient is kept as a pair [n, d], and a quotient 0/0 is the   *)
(* not-a-number value NaN, every comparison with which is false.  The      *)
(* grayscale field is kept as the SUM of the three channels (three times   *)
(* the mean): every use of it is normalised by the field's maximum, so the *)
(* factor cancels.                                                         *)
(***************************************************************************)
EXTENDS Integers, Sequences, FiniteSets, TLC

VARIABLES
  \* ---- ImageProcessingService applied to one image (specification SpecImage)
  img,          \* the decoded image: [w, h, px]
  hint,         \* the optional vehicle region handed to plate / logo / colour
  ipc,          \* which detector runs next
  vOut, pOut, lOut, cOut,  \* what each detector returned
  \* ---- CloudUploadService.uploadWithRetry (specification SpecRetry)
  rpc,          \* where the call stands: idle, test, upload, wait, done
  maxRetries,   \* its argument
  attempt,      \* the loop counter
  lastError,    \* the last failure reason seen
  rlog,         \* what the call did so far: upload attempts and waits, in order
  rret,         \* what the call returned
  \* ---- VehicleDetectionService (specification Spec)
  isInitialized,
  config,       \* the ProcessingConfig in force
  calls,        \* the processImage calls: where each stands and its local variables
  tensors,      \* the tensors alive: who created each (call, detector, name)
  results,      \* the result object each call built, as it is now
  built,        \* the same object as it was when it was built
  uploads,      \* the payloads uploadToCloud prepared, each with the call of its result
  faults,       \* how many numeric failures have struck so far
  \* ---- the colour classifier's functions applied to one input (specification SpecColor)
  kin,          \* the input: an HSL triple, an RGB triple, or an image with its optional region
  kpc,          \* which function runs next
  khsl,         \* what rgbToHsl returned
  kname,        \* what getColorName returned
  kout          \* what detectVehicleColor returned

(***************************************************************************)
(* Bounds of the model.                                                    *)
(***************************************************************************)
MaxDim == 12           \* images are 1..MaxDim pixels wide and high
MaxTall == 4           \* and at most MaxTall pixels higher than wide
MaxRetriesArg == 4     \* uploadWithRetry is called with maxRetries in 0..MaxRetriesArg
MaxCalls == 1          \* processImage is called at most MaxCalls times
MaxFaults == 1         \* at most MaxFaults numeric failures strike the detectors

(***************************************************************************)
(* Numbers: quotients and NaN.                                             *)
(***************************************************************************)
Rat(n, d) == [n |-> n, d |-> d]
NaN == Rat(0, 0)
IsNaN(q) == q.d = 0 /\ q.n = 0
RatGt(a, b) == ~IsNaN(a) /\ ~IsNaN(b) /\ a.n * b.d > b.n * a.d
RatGeq(a, b) == ~IsNaN(a) /\ ~IsNaN(b) /\ a.n * b.d >= b.n * a.d
RatLeq(a, b) == RatGeq(b, a)
\* Math.min(a, b): NaN if either is NaN
RatMin(a, b) == IF IsNaN(a) \/ IsNaN(b) THEN NaN ELSE IF RatGt(a, b) THEN b ELSE a
\* q is a number in [0,1]
InUnitInterval(q) == RatGeq(q, Rat(0, 1)) /\ RatLeq(q, Rat(1, 1))

\* the number of iterations of  for (v = start; v < limit; v += step)
NSteps(start, limit, step) ==
  IF start >= limit THEN 0 ELSE (limit - start + step - 1) \div step

\* TLC evaluates a function value application by application; comparing it makes
\* TLC tabulate it once.  Table(F) is F.
Table(F) == IF F = F THEN F ELSE F

\* an absent (null) detector result
Null == [some |-> FALSE]

(***************************************************************************)
(* Images.  px maps <<x, y>> to the pixel's <<r, g, b>>, channels 0..255.  *)
(***************************************************************************)
Pixels(w, h) == (0 .. w - 1) \X (0 .. h - 1)

Black == <<0, 0, 0>>
Navy == <<26, 26, 46>>
White == <<255, 255, 255>>

PatternKinds == { "uniform", "checker", "stripes", "block" }

\* whether pixel (x, y) of a kind-pattern anchored at (x0, y0) is foreground
InPattern(kind, x0, y0, x, y) ==
  /\ x >= x0 /\ y >= y0
  /\ CASE kind = "uniform" -> FALSE
       [] kind = "checker" -> (x + y) % 2 = 0
       [] kind = "stripes" -> x % 2 = 0
       [] kind = "block"   -> TRUE

MkImage(w, h, bg, fg, kind, x0, y0) ==
  [ w |-> w, h |-> h,
    px |-> [ p \in Pixels(w, h) |->
               IF InPattern(kind, x0, y0, p[1], p[2]) THEN fg ELSE bg ] ]

\* the sizes of the images of the family
Dims == { d \in (1 .. MaxDim) \X (1 .. MaxDim) : d[2] <= d[1] + MaxTall }

\* the bounded family of decoded images: every size in one colour (black, or a
\* colour whose channels differ), black patterns on white in the larger sizes,
\* one image whose edges mostly lie outside the windows scanned, and one whose
\* edges lie about its middle row
Images ==
  { MkImage(d[1], d[2], bg, bg, "uniform", 0, 0) : d \in Dims, bg \in { Black, Navy } }
  \cup
  { MkImage(d[1], d[2], White, Black, kind, a[1] * (d[1] \div 2), a[2] * (d[2] \div 2)) :
      d \in { e \in Dims : e[1] >= MaxDim - 4 /\ e[2] \in { 6, MaxDim } },
      kind \in PatternKinds \ { "uniform" },
      a \in { <<0, 0>>, <<0, 1>>, <<1, 1>> } }
  \cup
  \* a white block on black that begins where the 8 one-pixel cells of the grid end
  { MkImage(MaxDim, MaxDim, Black, White, "block", 8, 8) }
  \cup
  \* an odd-height image, black above and white below its middle row
  { MkImage(MaxDim - 1, MaxDim - 1, Black, White, "block", 0, (MaxDim - 1) \div 2) }

(***************************************************************************)
(* EdgeMap: grayscale, 3x3 'same' convolution with zero padding.           *)
(***************************************************************************)
\* imageTensor.mean(2), times 3
GrayField(im) ==
  Table([ p \in Pixels(im.w, im.h) |-> im.px[p][1] + im.px[p][2] + im.px[p][3] ])

SobelX == << <<-1, 0, 1>>, <<-2, 0, 2>>, <<-1, 0, 1>> >>
SobelY == << <<-1, -2, -1>>, <<0, 0, 0>>, <<1, 2, 1>> >>
Laplacian == << <<0, 1, 0>>, <<1, -4, 1>>, <<0, 1, 0>> >>

\* the field's value at (x, y); 0 outside the image (the zero padding of 'same')
Padded(F, w, h, x, y) ==
  IF x >= 0 /\ x < w /\ y >= 0 /\ y < h THEN F[<<x, y>>] ELSE 0

\* tf.conv2d(field, kernel, 1, 'same'): K[i][j] weighs the pixel at row y+i-2, column x+j-2
Conv2dSame(F, w, h, K) ==
  Table([ p \in Pixels(w, h) |->
      LET T(i, j) == K[i][j] * Padded(F, w, h, p[1] + j - 2, p[2] + i - 2)
      IN  T(1, 1) + T(1, 2) + T(1, 3) + T(2, 1) + T(2, 2) + T(2, 3)
          + T(3, 1) + T(3, 2) + T(3, 3) ])

Abs(v) == IF v < 0 THEN -v ELSE v

\* tensor.max() of a field of non-negative values (0 for an empty field)
FieldMax(F) ==
  LET vals == { F[p] : p \in DOMAIN F }
  IN  IF vals = {} THEN 0 ELSE CHOOSE m \in vals : \A v \in vals : v <= m

\* value / max as the code divides: 0 / 0 is the not-a-number value
Normalized(value, max) == Rat(value, max)

\* the field read as the flat array tensor.data() returns; (array[idx] || 0)
FlatAt(F, w, h, idx) ==
  IF idx >= 0 /\ idx < w * h THEN F[<<idx % w, idx \div w>>] ELSE 0

(***************************************************************************)
(* detectVehicleRegion                                                     *)
(***************************************************************************)
GridSize == 8
\* the scan visits gx, gy = 0 .. GridSize - VehicleScanMargin - 1
VehicleScanMargin == 2

\* normalized.greater(0.15) on magnitude = sqrt(gradX^2 + gradY^2), max-normalised:
\* sqrt(m2)/sqrt(max2) > 0.15  <=>  400 * m2 > 9 * max2 ; 0/0 = NaN is not greater
EdgeThreshold(m2, max2) == max2 > 0 /\ m2 > (9 * max2) \div 400

\* an iteration that counts grid cells from 1: window k lies one cell further
\* right and down
VehicleStepFromOne(c, acc, k) ==
  LET n == GridSize - VehicleScanMargin
      startX == (((k - 1) % n) + 1) * c.cellWidth
      startY == (((k - 1) \div n) + 1) * c.cellHeight
      regionWidth == c.cellWidth * 3
      regionHeight == c.cellHeight * 3
      count == Cardinality({ p \in (startX .. startX + regionWidth - 1)
                                    \X (startY .. startY + regionHeight - 1) :
                               p[1] < c.w /\ p[2] < c.h /\ c.edgeData[p] })
      density == Rat(count, regionWidth * regionHeight)
  IN  IF RatGt(density, acc.maxDensity)
      THEN [ maxDensity |-> density,
             bestRegion |-> [ x |-> startX, y |-> startY,
                              width |-> regionWidth, height |-> regionHeight ] ]
      ELSE acc

\* an iteration in which a window as dense as the best so far replaces it
VehicleStepLastWins(c, acc, k) ==
  LET n == GridSize - VehicleScanMargin
      startX == ((k - 1) % n) * c.cellWidth
      startY == ((k - 1) \div n) * c.cellHeight
      regionWidth == c.cellWidth * 3
      regionHeight == c.cellHeight * 3
      count == Cardinality({ p \in (startX .. startX + regionWidth - 1)
                                    \X (startY .. startY + regionHeight - 1) :
                               p[1] < c.w /\ p[2] < c.h /\ c.edgeData[p] })
      density == Rat(count, regionWidth * regionHeight)
  IN  IF RatGeq(density, acc.maxDensity)
      THEN [ maxDensity |-> density,
             bestRegion |-> [ x |-> startX, y |-> startY,
                              width |-> regionWidth, height |-> regionHeight ] ]
      ELSE acc

\* one iteration of the scan: window k (gy outer, gx inner) against the best so far
VehicleStep(c, acc, k) ==
  LET n == GridSize - VehicleScanMargin
      startX == ((k - 1) % n) * c.cellWidth
      startY == ((k - 1) \div n) * c.cellHeight
      regionWidth == c.cellWidth * 3
      regionHeight == c.cellHeight * 3
      count == Cardinality({ p \in (startX .. startX + regionWidth - 1)
                                    \X (startY .. startY + regionHeight - 1) :
                               p[1] < c.w /\ p[2] < c.h /\ c.edgeData[p] })
      density == Rat(count, regionWidth * regionHeight)
  IN  IF RatGt(density, acc.maxDensity)
      THEN [ maxDensity |-> density,
             bestRegion |-> [ x |-> startX, y |-> startY,
                              width |-> regionWidth, height |-> regionHeight ] ]
      ELSE acc

\* the iterations lo..hi of the scan, in order
RECURSIVE VehicleScan(_, _, _, _)
VehicleScan(c, acc, lo, hi) ==
  IF lo > hi THEN acc
  ELSE IF lo = hi THEN VehicleStep(c, acc, lo)
  ELSE LET mid == (lo + hi) \div 2
           left == VehicleScan(c, acc, lo, mid)
       IN  IF left = left THEN VehicleScan(c, left, mid + 1, hi) ELSE left

\* the thresholded edge map and the size of a grid cell
VehicleEdges(im) ==
  LET w == im.w
      h == im.h
      gray == GrayField(im)
      gradX == Conv2dSame(gray, w, h, SobelX)
      gradY == Conv2dSame(gray, w, h, SobelY)
      mag2 == Table([ p \in Pixels(w, h) |-> gradX[p] * gradX[p] + gradY[p] * gradY[p] ])
      max2 == FieldMax(mag2)
      edgeData == Table([ p \in Pixels(w, h) |-> EdgeThreshold(mag2[p], max2) ])
  IN  [ w |-> w, h |-> h, edgeData |-> edgeData,
        cellWidth |-> w \div GridSize, cellHeight |-> h \div GridSize,
        \* the squares of the magnitude field and of its maximum
        magnitude2 |-> mag2, maxVal2 |-> max2 ]

\* detectVehicleRegion with the mid-height comparison made non-strict
detectVehicleRegionRearAtMid(im) ==
  LET h == im.h
      c == VehicleEdges(im)
      n == GridSize - VehicleScanMargin
      final == VehicleScan(c, [ maxDensity |-> Rat(0, 1),
                                bestRegion |-> [ x |-> 0, y |-> 0, width |-> 0, height |-> 0 ] ],
                           1, n * n)
  IN  IF RatGt(final.maxDensity, Rat(5, 100))
      THEN [ some |-> TRUE,
             type |-> IF 2 * final.bestRegion.y + final.bestRegion.height >= h
                      THEN "rear" ELSE "front",
             bbox |-> final.bestRegion,
             confidence |-> RatMin(Rat(5 * final.maxDensity.n, final.maxDensity.d),
                                   Rat(95, 100)) ]
      ELSE Null

detectVehicleRegion(im) ==
  LET h == im.h
      c == VehicleEdges(im)
      n == GridSize - VehicleScanMargin
      final == VehicleScan(c, [ maxDensity |-> Rat(0, 1),
                                bestRegion |-> [ x |-> 0, y |-> 0, width |-> 0, height |-> 0 ] ],
                           1, n * n)
  IN  IF RatGt(final.maxDensity, Rat(5, 100))
      THEN [ some |-> TRUE,
             type |-> IF 2 * final.bestRegion.y + final.bestRegion.height > h
                      THEN "rear" ELSE "front",
             bbox |-> final.bestRegion,
             confidence |-> RatMin(Rat(5 * final.maxDensity.n, final.maxDensity.d),
                                   Rat(95, 100)) ]
      ELSE Null

(***************************************************************************)
(* detectLicensePlateRegion.  Coordinates in 1/400 pixel.                  *)
(***************************************************************************)
PlateUnit == 400

\* plateSizes: {w: 0.25 W, h: 0.065 W} and {w: 0.15 W, h: 0.075 W}, with
\* stepX = 0.3 w and stepY = 0.5 h; the window's area w * h is k * W^2 / 800
PlateSizes(W) ==
  << [ w |-> 100 * W, h |-> 26 * W, stepX |-> 30 * W, stepY |-> 13 * W, k |-> 13 ],
     [ w |-> 60 * W,  h |-> 30 * W, stepX |-> 18 * W, stepY |-> 15 * W, k |-> 9 ] >>

\* the search area: the lower 60% of the image, or the vehicle's box below 30% of its height
PlateSearchBounds(W, H, vehicleRegion) ==
  IF vehicleRegion.some
  THEN [ startX |-> PlateUnit * vehicleRegion.bbox.x,
         startY |-> PlateUnit * vehicleRegion.bbox.y + 120 * vehicleRegion.bbox.height,
         endX   |-> PlateUnit * (vehicleRegion.bbox.x + vehicleRegion.bbox.width),
         endY   |-> PlateUnit * (vehicleRegion.bbox.y + vehicleRegion.bbox.height) ]
  ELSE [ startX |-> 0,
         startY |-> PlateUnit * ((4 * H) \div 10),
         endX   |-> PlateUnit * W,
         endY   |-> PlateUnit * H ]

\* the sum of f[lo] .. f[hi]
RECURSIVE SumRange(_, _, _)
SumRange(f, lo, hi) ==
  IF lo > hi THEN 0
  ELSE IF lo = hi THEN f[lo]
  ELSE LET mid == (lo + hi) \div 2
       IN  SumRange(f, lo, mid) + SumRange(f, mid + 1, hi)

\* the window of the given size at (x, y): the sum of its edge values, the number of
\* its pixels whose normalised edge value exceeds 0.3, and the window as a candidate
PlateWindow(c, size, x, y) ==
  LET nDx == (size.w + PlateUnit - 1) \div PlateUnit
      nDy == (size.h + PlateUnit - 1) \div PlateUnit
      edgeAt == Table([ i \in 0 .. nDx * nDy - 1 |->
                    FlatAt(c.edgeData, c.w, c.h,
                           ((y + PlateUnit * (i \div nDx)) \div PlateUnit) * c.w
                           + ((x + PlateUnit * (i % nDx)) \div PlateUnit)) ])
      sum == SumRange(edgeAt, 0, nDx * nDy - 1)
      \* edgeVal = (edgeData[idx] || 0) / maxEdge; if (edgeVal > 0.3) horizontalEdges++
      horizontalEdges == Cardinality({ i \in DOMAIN edgeAt :
                                         RatGt(Normalized(edgeAt[i], c.maxEdge), Rat(3, 10)) })
  IN  [ bbox |-> [ x |-> x \div PlateUnit, y |-> y \div PlateUnit,
                   width |-> size.w \div PlateUnit, height |-> size.h \div PlateUnit ],
        k |-> size.k,
        sum |-> sum,
        horizontalEdges |-> horizontalEdges,
        \* edgeDensity > 0.15 && horizontalRatio > 0.1 ; a NaN (maxEdge = 0) is not greater
        accepted |-> /\ c.maxEdge > 0
                     /\ sum > (3 * c.maxEdge * size.k * c.w * c.w) \div 16000
                     /\ 8000 * horizontalEdges > size.k * c.w * c.w,
        \* score = 0.6 edgeDensity + 0.4 horizontalRatio = 160 * scoreN / (maxEdge * k * W^2)
        scoreN |-> 3 * sum + 2 * horizontalEdges * c.maxEdge ]

\* the windows of one size in scan order: y outer, x inner
PlateWindows(c, size, bounds) ==
  LET nX == NSteps(bounds.startX, bounds.endX - size.w, size.stepX)
      nY == NSteps(bounds.startY, bounds.endY - size.h, size.stepY)
  IN  [ i \in 1 .. nX * nY |->
          PlateWindow(c, size, bounds.startX + ((i - 1) % nX) * size.stepX,
                               bounds.startY + ((i - 1) \div nX) * size.stepY) ]

\* a.score > b.score
PlateScoreGt(a, b) == a.scoreN * b.k > b.scoreN * a.k

\* a descending sort that puts the later of two equal scores first
SortByScoreDescLaterFirst(cands) ==
  LET n == Len(cands)
      Rank(i) == Cardinality({ j \in 1 .. n : PlateScoreGt(cands[j], cands[i]) })
                 + Cardinality({ j \in i + 1 .. n :
                                   ~PlateScoreGt(cands[j], cands[i])
                                   /\ ~PlateScoreGt(cands[i], cands[j]) })
                 + 1
  IN  [ r \in 1 .. n |-> cands[CHOOSE i \in 1 .. n : Rank(i) = r] ]

\* candidates.sort((a, b) => b.score - a.score): descending, equal scores keep their order
SortByScoreDesc(cands) ==
  LET n == Len(cands)
      \* the place of cands[i]: after every higher score and every earlier equal score
      Rank(i) == Cardinality({ j \in 1 .. n : PlateScoreGt(cands[j], cands[i]) })
                 + Cardinality({ j \in 1 .. i - 1 :
                                   ~PlateScoreGt(cands[j], cands[i])
                                   /\ ~PlateScoreGt(cands[i], cands[j]) })
                 + 1
  IN  [ r \in 1 .. n |-> cands[CHOOSE i \in 1 .. n : Rank(i) = r] ]

\* edges = |conv2d(gray, sobelX)| with its maximum
PlateEdges(im) ==
  LET conv == Conv2dSame(GrayField(im), im.w, im.h, SobelX)
      edges == Table([ p \in Pixels(im.w, im.h) |-> Abs(conv[p]) ])
  IN  [ w |-> im.w, h |-> im.h, edgeData |-> edges, maxEdge |-> FieldMax(edges) ]

\* the accepted windows, in scan order: sizes outer, then y, then x
PlateCandidates(c, vehicleRegion) ==
  LET bounds == PlateSearchBounds(c.w, c.h, vehicleRegion)
      sizes == PlateSizes(c.w)
      IsAccepted(win) == win.accepted
  IN  SelectSeq(PlateWindows(c, sizes[1], bounds) \o PlateWindows(c, sizes[2], bounds),
                IsAccepted)

detectLicensePlateRegion(im, vehicleRegion) ==
  LET c == PlateEdges(im)
      candidates == PlateCandidates(c, vehicleRegion)
      best == SortByScoreDesc(candidates)[1]
  IN  IF Len(candidates) = 0 THEN Null
      ELSE [ some |-> TRUE,
             bbox |-> best.bbox,
             \* Math.min(best.score * 2, 0.9)
             confidence |-> RatMin(Rat(320 * best.scoreN, c.maxEdge * best.k * c.w * c.w),
                                   Rat(9, 10)) ]

(***************************************************************************)
(* detectLogoRegion.  Coordinates in 1/100 pixel.                          *)
(***************************************************************************)
LogoUnit == 100

\* halfSize of the logoSizes 0.06 W, 0.08 W, 0.1 W; the scan steps by logoSize * 0.5 = halfSize
LogoHalfSizes(W) == << 3 * W, 4 * W, 5 * W >>

\* the search centre and radius
LogoSearch(W, H, vehicleRegion) ==
  IF vehicleRegion.some
  THEN [ centerX |-> LogoUnit * vehicleRegion.bbox.x + 50 * vehicleRegion.bbox.width,
         centerY |-> LogoUnit * vehicleRegion.bbox.y + 20 * vehicleRegion.bbox.height,
         radius  |-> 30 * vehicleRegion.bbox.width ]
  ELSE [ centerX |-> 50 * W, centerY |-> 30 * H, radius |-> 30 * W ]

\* |conv2d(gray, laplacian)| with its maximum
LogoResponse(im) ==
  LET conv == Conv2dSame(GrayField(im), im.w, im.h, Laplacian)
      response == Table([ p \in Pixels(im.w, im.h) |-> Abs(conv[p]) ])
  IN  [ w |-> im.w, h |-> im.h, responseData |-> response, maxResponse |-> FieldMax(response) ]

\* the circular window of half size halfSize centred at (x, y): the sum of the
\* responses sampled and the number of samples
LogoBlob(c, halfSize, x, y) ==
  LET m == NSteps(-halfSize, halfSize, LogoUnit)
      Dx(i) == -halfSize + LogoUnit * (i % m)
      Dy(i) == -halfSize + LogoUnit * (i \div m)
      Px(i) == (x + Dx(i)) \div LogoUnit
      Py(i) == (y + Dy(i)) \div LogoUnit
      Sampled(i) == /\ Dx(i) * Dx(i) + Dy(i) * Dy(i) <= halfSize * halfSize
                    /\ Px(i) >= 0 /\ Py(i) >= 0 /\ Px(i) < c.w /\ Py(i) < c.h
      value == Table([ i \in 0 .. m * m - 1 |->
                         IF Sampled(i) THEN FlatAt(c.responseData, c.w, c.h, Py(i) * c.w + Px(i))
                         ELSE 0 ])
  IN  [ sum |-> SumRange(value, 0, m * m - 1),
        pixelCount |-> Cardinality({ i \in 0 .. m * m - 1 : Sampled(i) }) ]

\* one iteration of a scan that scores every position, near the border or not
LogoStepUnclipped(c, acc, k) ==
  LET n1 == c.n[1] * c.n[1]
      n2 == c.n[2] * c.n[2]
      s == IF k <= n1 THEN 1 ELSE IF k <= n1 + n2 THEN 2 ELSE 3
      i == IF s = 1 THEN k - 1 ELSE IF s = 2 THEN k - 1 - n1 ELSE k - 1 - n1 - n2
      halfSize == c.halfSizes[s]
      x == c.search.centerX - c.search.radius + (i % c.n[s]) * halfSize
      y == c.search.centerY - c.search.radius + (i \div c.n[s]) * halfSize
      blob == LogoBlob(c, halfSize, x, y)
      blobScore == Rat(blob.sum, blob.pixelCount * c.maxResponse)
  IN  IF blob.pixelCount > 0 /\ (~acc.some \/ RatGt(blobScore, acc.score))
      THEN [ some |-> TRUE,
             bbox |-> [ x |-> (x - halfSize) \div LogoUnit, y |-> (y - halfSize) \div LogoUnit,
                        width |-> (2 * halfSize) \div LogoUnit,
                        height |-> (2 * halfSize) \div LogoUnit ],
             score |-> blobScore ]
      ELSE acc

\* one iteration of the scan: position k (sizes outer, then y, then x) against the best so far
LogoStep(c, acc, k) ==
  LET n1 == c.n[1] * c.n[1]
      n2 == c.n[2] * c.n[2]
      s == IF k <= n1 THEN 1 ELSE IF k <= n1 + n2 THEN 2 ELSE 3
      i == IF s = 1 THEN k - 1 ELSE IF s = 2 THEN k - 1 - n1 ELSE k - 1 - n1 - n2
      halfSize == c.halfSizes[s]
      x == c.search.centerX - c.search.radius + (i % c.n[s]) * halfSize
      y == c.search.centerY - c.search.radius + (i \div c.n[s]) * halfSize
      skipped == \/ x < halfSize \/ y < halfSize
                 \/ x > LogoUnit * c.w - halfSize \/ y > LogoUnit * c.h - halfSize
      blob == LogoBlob(c, halfSize, x, y)
      \* blobScore: the mean of response / maxResponse over the samples (0/0 = NaN)
      blobScore == Rat(blob.sum, blob.pixelCount * c.maxResponse)
  IN  IF ~skipped /\ blob.pixelCount > 0 /\ (~acc.some \/ RatGt(blobScore, acc.score))
      THEN [ some |-> TRUE,
             bbox |-> [ x |-> (x - halfSize) \div LogoUnit, y |-> (y - halfSize) \div LogoUnit,
                        width |-> (2 * halfSize) \div LogoUnit,
                        height |-> (2 * halfSize) \div LogoUnit ],
             score |-> blobScore ]
      ELSE acc

\* the iterations lo..hi of the scan, in order
RECURSIVE LogoScan(_, _, _, _)
LogoScan(c, acc, lo, hi) ==
  IF lo > hi THEN acc
  ELSE IF lo = hi THEN LogoStep(c, acc, lo)
  ELSE LET mid == (lo + hi) \div 2
           left == LogoScan(c, acc, lo, mid)
       IN  IF left = left THEN LogoScan(c, left, mid + 1, hi) ELSE left

detectLogoRegion(im, vehicleRegion) ==
  LET r == LogoResponse(im)
      search == LogoSearch(im.w, im.h, vehicleRegion)
      halfSizes == LogoHalfSizes(im.w)
      n == [ s \in 1 .. 3 |-> NSteps(-search.radius, search.radius, halfSizes[s]) ]
      c == [ w |-> im.w, h |-> im.h, responseData |-> r.responseData,
             maxResponse |-> r.maxResponse, search |-> search,
             halfSizes |-> halfSizes, n |-> n ]
      bestLogo == LogoScan(c, Null, 1, n[1] * n[1] + n[2] * n[2] + n[3] * n[3])
  IN  IF bestLogo.some /\ RatGt(bestLogo.score, Rat(1, 10))
      THEN [ some |-> TRUE,
             bbox |-> bestLogo.bbox,
             \* Math.min(bestLogo.score * 3, 0.85)
             confidence |-> RatMin(Rat(3 * bestLogo.score.n, bestLogo.score.d), Rat(85, 100)) ]
      ELSE Null

(***************************************************************************)
(* detectVehicleColor                                                      *)
(***************************************************************************)
\* Math.round(n / d) for n >= 0, d > 0
RoundDiv(n, d) == (2 * n + d) \div (2 * d)

Max2(a, b) == IF a >= b THEN a ELSE b
Min2(a, b) == IF a <= b THEN a ELSE b

\* the region sampled: the vehicle's box cut to the image, or the central crop
\* (20%..80% of the width, 30%..70% of the height); thrown when tf.slice rejects it
ColorRegion(W, H, vehicleRegion) ==
  IF vehicleRegion.some
  THEN LET bb == vehicleRegion.bbox
           beginX == Max2(0, bb.x)
           beginY == Max2(0, bb.y)
           sizeX == Min2(bb.width, W - bb.x)
           sizeY == Min2(bb.height, H - bb.y)
           \* tf.slice: a size of -1 means "up to the end"
           cutX == IF sizeX = -1 THEN W - beginX ELSE sizeX
           cutY == IF sizeY = -1 THEN H - beginY ELSE sizeY
       IN  [ thrown |-> cutX < 0 \/ cutY < 0 \/ beginX + cutX > W \/ beginY + cutY > H,
             startX |-> beginX, startY |-> beginY, width |-> cutX, height |-> cutY,
             pixelCount |-> sizeX * sizeY ]
  ELSE [ thrown |-> FALSE,
         startX |-> (2 * W) \div 10, startY |-> (3 * H) \div 10,
         width |-> (6 * W) \div 10, height |-> (4 * H) \div 10,
         pixelCount |-> ((6 * W) \div 10) * ((4 * H) \div 10) ]

\* regionData: the region's pixels, row by row, each channel v read back as
\* Math.round((v / 255) * 255)
RegionData(im, region) ==
  LET n == region.width * region.height
  IN  [ i \in 1 .. n |->
          LET p == << region.startX + ((i - 1) % region.width),
                      region.startY + ((i - 1) \div region.width) >>
          IN  << RoundDiv(im.px[p][1] * 255, 255), RoundDiv(im.px[p][2] * 255, 255),
                 RoundDiv(im.px[p][3] * 255, 255) >> ]

ColorBucketWidth == 32

\* the histogram key of a pixel: each channel's bucket floor(v / 32) * 32
Quantize(rgb) ==
  << (rgb[1] \div ColorBucketWidth) * ColorBucketWidth,
     (rgb[2] \div ColorBucketWidth) * ColorBucketWidth,
     (rgb[3] \div ColorBucketWidth) * ColorBucketWidth >>

\* colorHistogram: its keys in the order they were first added, each with its
\* pixel count and channel sums
ColorHistogram(data) ==
  LET n == Len(data)
      key == Table([ i \in 1 .. n |-> Quantize(data[i]) ])
      first == { i \in 1 .. n : \A j \in 1 .. i - 1 : key[j] # key[i] }
      Nth(m) == CHOOSE i \in first : Cardinality({ j \in first : j < i }) = m - 1
      Channel(k, ch) == [ i \in 1 .. n |-> IF key[i] = k THEN data[i][ch] ELSE 0 ]
  IN  [ m \in 1 .. Cardinality(first) |->
          LET k == key[Nth(m)]
          IN  [ key |-> k,
                count |-> Cardinality({ i \in 1 .. n : key[i] = k }),
                r |-> SumRange(Channel(k, 1), 1, n),
                g |-> SumRange(Channel(k, 2), 1, n),
                b |-> SumRange(Channel(k, 3), 1, n) ] ]

\* an iteration that reports the bucket's key instead of the mean of its pixels
DominantStepBucket(hist, acc, m) ==
  LET color == hist[m]
  IN  IF color.count > acc.count
      THEN [ r |-> color.key[1], g |-> color.key[2], b |-> color.key[3],
             count |-> color.count ]
      ELSE acc

\* an iteration that lets a later bucket of equal count win
DominantStepLaterWins(hist, acc, m) ==
  LET color == hist[m]
  IN  IF color.count >= acc.count
      THEN [ r |-> RoundDiv(color.r, color.count),
             g |-> RoundDiv(color.g, color.count),
             b |-> RoundDiv(color.b, color.count),
             count |-> color.count ]
      ELSE acc

\* one iteration of  for (const key in colorHistogram)
DominantStep(hist, acc, m) ==
  LET color == hist[m]
  IN  IF color.count > acc.count
      THEN [ r |-> RoundDiv(color.r, color.count),
             g |-> RoundDiv(color.g, color.count),
             b |-> RoundDiv(color.b, color.count),
             count |-> color.count ]
      ELSE acc

\* the iterations lo..hi over the histogram's keys, in order
RECURSIVE DominantScan(_, _, _, _)
DominantScan(hist, acc, lo, hi) ==
  IF lo > hi THEN acc
  ELSE IF lo = hi THEN DominantStep(hist, acc, lo)
  ELSE LET mid == (lo + hi) \div 2
           left == DominantScan(hist, acc, lo, mid)
       IN  IF left = left THEN DominantScan(hist, left, mid + 1, hi) ELSE left

\* a conversion that does not wrap a negative hue around the circle
rgbToHslUnwrapped(r, g, b) ==
  LET max == Max2(r, Max2(g, b))
      min == Min2(r, Min2(g, b))
      d == max - min
      l == Rat(100 * (max + min), 510)
  IN  IF max = min THEN [ h |-> Rat(0, 1), s |-> Rat(0, 1), l |-> l ]
      ELSE [ h |-> IF max = r THEN Rat(60 * (g - b), d)
                   ELSE IF max = g THEN Rat(60 * (b - r) + 120 * d, d)
                   ELSE Rat(60 * (r - g) + 240 * d, d),
             s |-> IF max + min > 255 THEN Rat(100 * d, 510 - max - min)
                   ELSE Rat(100 * d, max + min),
             l |-> l ]

\* rgbToHsl: h in degrees, s and l in percent, as quotients
rgbToHsl(r, g, b) ==
  LET max == Max2(r, Max2(g, b))
      min == Min2(r, Min2(g, b))
      d == max - min
      l == Rat(100 * (max + min), 510)
  IN  IF max = min THEN [ h |-> Rat(0, 1), s |-> Rat(0, 1), l |-> l ]
      ELSE [ h |-> IF max = r THEN Rat(60 * (g - b) + (IF g < b THEN 360 * d ELSE 0), d)
                   ELSE IF max = g THEN Rat(60 * (b - r) + 120 * d, d)
                   ELSE Rat(60 * (r - g) + 240 * d, d),
             \* l > 0.5 ? d / (2 - max - min) : d / (max + min)
             s |-> IF max + min > 255 THEN Rat(100 * d, 510 - max - min)
                   ELSE Rat(100 * d, max + min),
             l |-> l ]

HexDigit == << "0", "1", "2", "3", "4", "5", "6", "7", "8", "9", "a", "b", "c", "d", "e", "f" >>

\* x.toString(16), padded to two digits
Hex2(x) ==
  IF x < 16 THEN "0" \o HexDigit[x + 1]
  ELSE IF x < 256 THEN HexDigit[(x \div 16) + 1] \o HexDigit[(x % 16) + 1]
  ELSE HexDigit[(x \div 256) + 1] \o HexDigit[((x \div 16) % 16) + 1] \o HexDigit[(x % 16) + 1]

rgbToHex(r, g, b) == "#" \o Hex2(r) \o Hex2(g) \o Hex2(b)

\* a classifier that tests low saturation before low lightness
getColorNameGrayBeforeBlack(h, s, l) ==
  IF RatGeq(l, Rat(85, 1)) /\ RatLeq(s, Rat(15, 1)) THEN "Trang"
  ELSE IF RatLeq(s, Rat(15, 1)) /\ RatGt(l, Rat(55, 1)) /\ RatGt(Rat(85, 1), l) THEN "Bac"
  ELSE IF RatLeq(s, Rat(15, 1)) THEN "Xam"
  ELSE IF RatLeq(l, Rat(15, 1)) THEN "Den"
  ELSE IF (RatGeq(h, Rat(0, 1)) /\ RatLeq(h, Rat(20, 1))) \/ RatGeq(h, Rat(340, 1)) THEN "Do"
  ELSE IF RatGt(h, Rat(20, 1)) /\ RatLeq(h, Rat(45, 1)) THEN "Cam"
  ELSE IF RatGt(h, Rat(45, 1)) /\ RatLeq(h, Rat(65, 1)) THEN "Vang"
  ELSE IF RatGt(h, Rat(65, 1)) /\ RatLeq(h, Rat(160, 1)) THEN "Xanh la"
  ELSE IF RatGt(h, Rat(160, 1)) /\ RatLeq(h, Rat(200, 1)) THEN "Xanh ngoc"
  ELSE IF RatGt(h, Rat(200, 1)) /\ RatLeq(h, Rat(250, 1)) THEN "Xanh duong"
  ELSE IF RatGt(h, Rat(250, 1)) /\ RatLeq(h, Rat(290, 1)) THEN "Tim"
  ELSE IF RatGt(h, Rat(290, 1)) /\ RatGt(Rat(340, 1), h) THEN "Hong"
  ELSE "Khong xac dinh"

\* getColorName; the names are the code's Vietnamese names without their diacritics
getColorName(h, s, l) ==
  IF RatGeq(l, Rat(85, 1)) /\ RatLeq(s, Rat(15, 1)) THEN "Trang"
  ELSE IF RatLeq(l, Rat(15, 1)) THEN "Den"
  ELSE IF RatLeq(s, Rat(15, 1)) /\ RatGt(l, Rat(55, 1)) /\ RatGt(Rat(85, 1), l) THEN "Bac"
  ELSE IF RatLeq(s, Rat(15, 1)) THEN "Xam"
  ELSE IF (RatGeq(h, Rat(0, 1)) /\ RatLeq(h, Rat(20, 1))) \/ RatGeq(h, Rat(340, 1)) THEN "Do"
  ELSE IF RatGt(h, Rat(20, 1)) /\ RatLeq(h, Rat(45, 1)) THEN "Cam"
  ELSE IF RatGt(h, Rat(45, 1)) /\ RatLeq(h, Rat(65, 1)) THEN "Vang"
  ELSE IF RatGt(h, Rat(65, 1)) /\ RatLeq(h, Rat(160, 1)) THEN "Xanh la"
  ELSE IF RatGt(h, Rat(160, 1)) /\ RatLeq(h, Rat(200, 1)) THEN "Xanh ngoc"
  ELSE IF RatGt(h, Rat(200, 1)) /\ RatLeq(h, Rat(250, 1)) THEN "Xanh duong"
  ELSE IF RatGt(h, Rat(250, 1)) /\ RatLeq(h, Rat(290, 1)) THEN "Tim"
  ELSE IF RatGt(h, Rat(290, 1)) /\ RatGt(Rat(340, 1), h) THEN "Hong"
  ELSE "Khong xac dinh"

detectVehicleColor(im, vehicleRegion) ==
  LET region == ColorRegion(im.w, im.h, vehicleRegion)
      hist == ColorHistogram(RegionData(im, region))
      dominantColor == DominantScan(hist, [ r |-> 0, g |-> 0, b |-> 0, count |-> 0 ],
                                    1, Len(hist))
      hsl == rgbToHsl(dominantColor.r, dominantColor.g, dominantColor.b)
  IN  IF region.thrown THEN Null
      ELSE [ some |-> TRUE,
             dominant |-> rgbToHex(dominantColor.r, dominantColor.g, dominantColor.b),
             name |-> getColorName(hsl.h, hsl.s, hsl.l),
             confidence |-> Rat(dominantColor.count, region.pixelCount),
             rgb |-> [ r |-> dominantColor.r, g |-> dominantColor.g, b |-> dominantColor.b ] ]

(***************************************************************************)
(* Specification SpecImage: the detectors applied to one image.            *)
(***************************************************************************)
ivars == <<img, hint, ipc, vOut, pOut, lOut, cOut>>
rvars == <<rpc, maxRetries, attempt, lastError, rlog, rret>>
svars == <<isInitialized, config, calls, tensors, results, built, uploads, faults>>
kvars == <<kin, kpc, khsl, kname, kout>>
vars == <<ivars, rvars, svars, kvars>>

Unset == [some |-> FALSE, unset |-> TRUE]

\* no image is being processed
ImageIdle ==
  /\ img = [w |-> 0, h |-> 0, px |-> <<>>]
  /\ hint = Null
  /\ ipc = "idle"
  /\ vOut = Unset /\ pOut = Unset /\ lOut = Unset /\ cOut = Unset

NoReturn == [returned |-> FALSE]

Calls == 1 .. MaxCalls

NoResult == [ built |-> FALSE ]

\* VehicleDetectionService.config as the class sets it
DefaultConfig ==
  [ minVehicleConfidence |-> Rat(5, 10),
    minPlateConfidence |-> Rat(4, 10),
    minLogoConfidence |-> Rat(3, 10),
    autoUploadToCloud |-> FALSE ]

IdleCall ==
  [ pc |-> "idle", uri |-> "", imageWidth |-> 0, imageHeight |-> 0,
    vehicleRegion |-> Unset, licensePlate |-> Unset, logoRegion |-> Unset,
    vehicleColor |-> Unset, faulted |-> {}, cause |-> "" ]

\* the service as constructed, no call made
ServiceIdle ==
  /\ isInitialized = FALSE
  /\ config = DefaultConfig
  /\ calls = [ c \in Calls |-> IdleCall ]
  /\ tensors = {}
  /\ results = [ c \in Calls |-> NoResult ]
  /\ built = [ c \in Calls |-> NoResult ]
  /\ uploads = {}
  /\ faults = 0

\* no colour function is being applied
ColorIdle ==
  /\ kin = [kind |-> "none"]
  /\ kpc = "idle"
  /\ khsl = Unset /\ kname = "" /\ kout = Unset

\* no uploadWithRetry call has been made
RetryIdle ==
  /\ rpc = "idle"
  /\ maxRetries = 0
  /\ attempt = 0
  /\ lastError = ""
  /\ rlog = <<>>
  /\ rret = NoReturn

InitImage ==
  /\ img \in Images
  /\ hint = Null
  /\ ipc = "vehicle"
  /\ vOut = Unset /\ pOut = Unset /\ lOut = Unset /\ cOut = Unset
  /\ RetryIdle
  /\ ServiceIdle
  /\ ColorIdle

RunVehicle ==
  /\ ipc = "vehicle"
  /\ vOut' = detectVehicleRegion(img)
  /\ ipc' = "plate"
  /\ hint' = vOut'
  /\ UNCHANGED <<img, pOut, lOut, cOut, rvars, svars, kvars>>

RunPlate ==
  /\ ipc = "plate"
  /\ pOut' = detectLicensePlateRegion(img, hint)
  /\ ipc' = "logo"
  /\ UNCHANGED <<img, hint, vOut, lOut, cOut, rvars, svars, kvars>>

RunLogo ==
  /\ ipc = "logo"
  /\ lOut' = detectLogoRegion(img, hint)
  /\ ipc' = "color"
  /\ UNCHANGED <<img, hint, vOut, pOut, cOut, rvars, svars, kvars>>

RunColor ==
  /\ ipc = "color"
  /\ cOut' = detectVehicleColor(img, hint)
  /\ ipc' = "done"
  /\ UNCHANGED <<img, hint, vOut, pOut, lOut, rvars, svars, kvars>>

NextImage == RunVehicle \/ RunPlate \/ RunLogo \/ RunColor

SpecImage == InitImage /\ [][NextImage]_vars

(***************************************************************************)
(* Specification SpecRetry: CloudUploadService.uploadWithRetry.  What one  *)
(* upload attempt returns is the transport's choice: success with a job    *)
(* id, or failure with a reason (the empty reason stands for a failure     *)
(* that carries no error text).                                            *)
(***************************************************************************)
JobIds == { "job_1700000000000", "job_1700000000500" }
FailureReasons == { "", "Network request failed", "HTTP error! status: 503" }

\* a loop that runs once too often
LoopContinuesOnceMore(a, m) == a <= m + 1

\* for (...; attempt <= maxRetries; ...)
LoopContinues(a, m) == a <= m

\* if (attempt < maxRetries)
BackoffWanted(a, m) == a < m

\* a backoff that grows linearly
BackoffDelayLinear(a) == 2 * a * 1000

\* Math.pow(2, attempt) * 1000, in milliseconds
BackoffDelay(a) == 2 ^ a * 1000

\* `Failed after ${maxRetries} attempts: ${lastError}`
FailedAfter(m, reason) == "Failed after " \o ToString(m) \o " attempts: " \o reason

\* result.error || 'Unknown error'
ErrorOrUnknown(reason) == IF reason = "" THEN "Unknown error" ELSE reason

CallUploadWithRetry(m) ==
  /\ rpc = "idle"
  /\ maxRetries' = m
  /\ lastError' = ""
  /\ attempt' = 1
  /\ rpc' = "test"
  /\ UNCHANGED <<rlog, rret, ivars, svars, kvars>>

\* the loop test; when it fails the call returns the aggregated failure
RetryLoopEnter ==
  /\ rpc = "test"
  /\ LoopContinues(attempt, maxRetries)
  /\ rpc' = "upload"
  /\ UNCHANGED <<maxRetries, attempt, lastError, rlog, rret, ivars, svars, kvars>>

RetryLoopExit ==
  /\ rpc = "test"
  /\ ~LoopContinues(attempt, maxRetries)
  /\ rret' = [ returned |-> TRUE, success |-> FALSE,
               error |-> FailedAfter(maxRetries, lastError) ]
  /\ rpc' = "done"
  /\ UNCHANGED <<maxRetries, attempt, lastError, rlog, ivars, svars, kvars>>

\* a success that is recorded but does not leave the loop
UploadSucceedsAndGoesOn(jobId) ==
  /\ rpc = "upload"
  /\ rlog' = Append(rlog, [ kind |-> "attempt", n |-> attempt, ok |-> TRUE, jobId |-> jobId ])
  /\ attempt' = attempt + 1
  /\ rpc' = "test"
  /\ UNCHANGED <<maxRetries, lastError, rret, ivars, svars, kvars>>

\* await this.upload(payload) came back with success: return it as it is
UploadSucceeds(jobId) ==
  /\ rpc = "upload"
  /\ rlog' = Append(rlog, [ kind |-> "attempt", n |-> attempt, ok |-> TRUE, jobId |-> jobId ])
  /\ rret' = [ returned |-> TRUE, success |-> TRUE, jobId |-> jobId ]
  /\ rpc' = "done"
  /\ UNCHANGED <<maxRetries, attempt, lastError, ivars, svars, kvars>>

\* await this.upload(payload) came back with a failure
UploadFails(reason) ==
  /\ rpc = "upload"
  /\ rlog' = Append(rlog, [ kind |-> "attempt", n |-> attempt, ok |-> FALSE, error |-> reason ])
  /\ lastError' = ErrorOrUnknown(reason)
  /\ IF BackoffWanted(attempt, maxRetries)
     THEN rpc' = "wait" /\ attempt' = attempt
     ELSE rpc' = "test" /\ attempt' = attempt + 1
  /\ UNCHANGED <<maxRetries, rret, ivars, svars, kvars>>

\* the backoff timer fired
BackoffElapsed ==
  /\ rpc = "wait"
  /\ rlog' = Append(rlog, [ kind |-> "wait", ms |-> BackoffDelay(attempt) ])
  /\ attempt' = attempt + 1
  /\ rpc' = "test"
  /\ UNCHANGED <<maxRetries, lastError, rret, ivars, svars, kvars>>

InitRetry == ImageIdle /\ RetryIdle /\ ServiceIdle /\ ColorIdle

NextRetry ==
  \/ \E m \in 0 .. MaxRetriesArg : CallUploadWithRetry(m)
  \/ RetryLoopEnter
  \/ RetryLoopExit
  \/ \E jobId \in JobIds : UploadSucceeds(jobId)
  \/ \E reason \in FailureReasons : UploadFails(reason)
  \/ BackoffElapsed

SpecRetry == InitRetry /\ [][NextRetry]_vars

(***************************************************************************)
(* The tensors of a detector call.  Each list names, in creation order,    *)
(* the tensors the detector's try block creates; pushedAt is the position  *)
(* of the last tensor created before the statement that pushes this one on *)
(* tensorsToDispose, and 0 for a tensor that no statement pushes (the      *)
(* intermediate of a chained expression).                                  *)
(***************************************************************************)
Op(name, pushedAt) == [ name |-> name, pushedAt |-> pushedAt ]

VehicleOps ==
  << Op("gray", 1), Op("sobelX", 3), Op("sobelY", 3),
     Op("gray.expandDims(0)", 0), Op("expanded", 9),
     Op("sobelX.expandDims(-1)", 0), Op("kernelX", 9),
     Op("sobelY.expandDims(-1)", 0), Op("kernelY", 9),
     Op("gradX", 11), Op("gradY", 11),
     Op("square(gradX)", 0), Op("square(gradY)", 0), Op("add", 0), Op("sqrt", 0),
     Op("magnitude", 16),
     Op("maxVal", 19), Op("normalized", 19), Op("threshold", 19) >>

PlateOps ==
  << Op("gray", 1), Op("sobelX", 2),
     Op("gray.expandDims(0)", 0), Op("expanded", 6),
     Op("sobelX.expandDims(-1)", 0), Op("kernelX", 6),
     Op("conv2d", 0), Op("abs", 0), Op("edges", 9),
     Op("maxEdgeTensor", 10) >>

LogoOps ==
  << Op("gray", 1), Op("laplacian", 2),
     Op("gray.expandDims(0)", 0), Op("expanded", 6),
     Op("laplacian.expandDims(-1)", 0), Op("kernel", 6),
     Op("conv2d", 0), Op("abs", 0), Op("response", 9),
     Op("maxResponseTensor", 10) >>

ColorOps(vehicleRegion) ==
  IF vehicleRegion.some
  THEN << Op("normalized", 1), Op("cropped", 2) >>
  ELSE << Op("slice", 0), Op("cropped", 2) >>

\* a detector's try block with a numeric failure at fault point f: 0 is no
\* failure, k in 1..Len(ops) is the creation of tensor k throwing, Len(ops) + 1
\* is a failure after the last tensor (reading the data back, the scan).
\* The finally block disposes what was pushed; the rest stays alive.
FaultPoints(ops) == 0 .. Len(ops) + 1

RunOps(ops, f) ==
  LET created == IF f = 0 \/ f > Len(ops) THEN 1 .. Len(ops) ELSE 1 .. f - 1
      reached == IF f = 0 \/ f > Len(ops) THEN Len(ops) ELSE f - 1
      pushed == { i \in created : ops[i].pushedAt > 0 /\ ops[i].pushedAt <= reached }
  IN  [ failed |-> f # 0,
        created |-> { ops[i].name : i \in created },
        disposed |-> { ops[i].name : i \in pushed },
        alive |-> { ops[i].name : i \in created \ pushed } ]

(***************************************************************************)
(* Specification Spec: VehicleDetectionService.  The files the host hands  *)
(* to processImage: one that cannot be read, one that is no JPEG, and      *)
(* photos.                                                                 *)
(***************************************************************************)
Photos ==
  ( "checker12x12.jpg" :> MkImage(12, 12, White, Black, "checker", 0, 0) ) @@
  ( "black1x1.jpg" :> MkImage(1, 1, Black, Black, "uniform", 0, 0) )

Uris == { "missing.jpg", "corrupt.jpg" } \cup DOMAIN Photos

\* FileSystem.readAsStringAsync resolves
Readable(uri) == uri # "missing.jpg"

\* decodeJpeg returns a tensor
Decodable(uri) == uri \in DOMAIN Photos

\* a pipeline whose plate, logo and colour steps are not handed the vehicle region
DetectUnhinted(im, vehicleFailed) ==
  LET found == detectVehicleRegion(im)
  IN  [ vehicleRegion |-> IF vehicleFailed THEN Null ELSE found,
        licensePlate |-> detectLicensePlateRegion(im, Null),
        logoRegion |-> detectLogoRegion(im, Null),
        vehicleColor |-> detectVehicleColor(im, Null) ]

\* what the four detectors return for a photo, without a numeric failure:
\* plate, logo and colour are handed the vehicle region, which is absent when
\* the vehicle detector found none or failed
Detect(im, vehicleFailed) ==
  LET found == detectVehicleRegion(im)
      vehicleRegion == IF vehicleFailed THEN Null ELSE found
  IN  [ vehicleRegion |-> vehicleRegion,
        licensePlate |-> detectLicensePlateRegion(im, vehicleRegion),
        logoRegion |-> detectLogoRegion(im, vehicleRegion),
        vehicleColor |-> detectVehicleColor(im, vehicleRegion) ]

\* the detectors are functions of the photo: tabulated once
Detections ==
  Table([ uri \in DOMAIN Photos |->
            Table([ vehicleFailed \in BOOLEAN |-> Detect(Photos[uri], vehicleFailed) ]) ])

\* detectors that work on one image slot of the service, which the call that
\* decoded last has filled, instead of on the tensor the call passes them
DetectedInSharedSlot(c) ==
  LET decoded == { d \in DOMAIN calls : calls[d].pc \in { "vehicle", "plate", "logo", "color", "build" } }
      last == CHOOSE d \in decoded : \A e \in decoded : e <= d
  IN  Detections[calls[last].uri]["vehicle" \in calls[c].faulted]

Detected(c) == Detections[calls[c].uri]["vehicle" \in calls[c].faulted]

ImageTensor(c) == [ call |-> c, by |-> "processImage", name |-> "imageTensor" ]

TensorsOf(c, by, names) == { [ call |-> c, by |-> by, name |-> n ] : n \in names }

\* the numeric failures that may strike a detector now: none, or, while the
\* budget lasts, its first tensor operation, its last one, or the code after them
FaultChoices(ops) ==
  IF faults < MaxFaults THEN { f \in FaultPoints(ops) : f <= 1 \/ f >= Len(ops) } ELSE { 0 }

\* initialize(): tf.ready() resolves
InitializeOk ==
  /\ isInitialized' = TRUE
  /\ UNCHANGED <<config, calls, tensors, results, built, uploads, faults, ivars, rvars, kvars>>

\* initialize(): tf.ready() rejects; the error is logged and false returned
InitializeFails ==
  /\ UNCHANGED <<svars, ivars, rvars, kvars>>

\* the partial configurations the host sets
ConfigPatches ==
  { [ minVehicleConfidence |-> Rat(95, 100), minPlateConfidence |-> Rat(1, 1) ],
    [ minVehicleConfidence |-> Rat(1, 1), minPlateConfidence |-> Rat(9, 10) ],
    [ minVehicleConfidence |-> Rat(1, 1), minPlateConfidence |-> Rat(1, 1),
      autoUploadToCloud |-> FALSE ],
    [ autoUploadToCloud |-> TRUE ] }

\* a setConfig that puts the options it is not given back to their defaults
MergeOntoDefaults(old, patch) ==
  [ k \in DOMAIN old |-> IF k \in DOMAIN patch THEN patch[k] ELSE DefaultConfig[k] ]

\* { ...this.config, ...config }
Merge(old, patch) ==
  [ k \in DOMAIN old |-> IF k \in DOMAIN patch THEN patch[k] ELSE old[k] ]

SetConfig(patch) ==
  /\ config' = Merge(config, patch)
  /\ UNCHANGED <<isInitialized, calls, tensors, results, built, uploads, faults, ivars, rvars, kvars>>

Dispose ==
  /\ isInitialized' = FALSE
  /\ UNCHANGED <<config, calls, tensors, results, built, uploads, faults, ivars, rvars, kvars>>

\* isReady()
isReady == isInitialized

\* a processImage that starts reading whether the service is initialized or not
StartProcessImageUnchecked(c, uri) ==
  /\ calls[c].pc = "idle"
  /\ \A d \in DOMAIN calls : d < c => calls[d].pc # "idle"
  /\ calls' = [ calls EXCEPT ![c] = [ @ EXCEPT !.pc = "read", !.uri = uri ] ]
  /\ UNCHANGED <<isInitialized, config, tensors, results, built, uploads, faults, ivars, rvars, kvars>>

\* processImage(uri) up to its first await; it throws when the service is not
\* initialized
StartProcessImage(c, uri) ==
  /\ calls[c].pc = "idle"
  \* calls are numbered in the order they are made
  /\ \A d \in DOMAIN calls : d < c => calls[d].pc # "idle"
  /\ calls' = [ calls EXCEPT ![c] =
                  IF isInitialized
                  THEN [ @ EXCEPT !.pc = "read", !.uri = uri ]
                  ELSE [ @ EXCEPT !.pc = "threw", !.uri = uri,
                                  !.cause = "Service not initialized" ] ]
  /\ UNCHANGED <<isInitialized, config, tensors, results, built, uploads, faults, ivars, rvars, kvars>>

\* the file is read and decoded: imageTensor exists and the vehicle detector is
\* called.  A file that cannot be read or decoded ends the call: the finally
\* block finds no imageTensor, and the error goes to the caller.
ReadAndDecode(c) ==
  /\ calls[c].pc = "read"
  /\ IF ~Readable(calls[c].uri)
     THEN /\ calls' = [ calls EXCEPT ![c].pc = "threw", ![c].cause = "read failed" ]
          /\ UNCHANGED tensors
     ELSE IF ~Decodable(calls[c].uri)
     THEN /\ calls' = [ calls EXCEPT ![c].pc = "threw", ![c].cause = "decode failed" ]
          /\ UNCHANGED tensors
     ELSE /\ calls' = [ calls EXCEPT ![c].pc = "vehicle",
                                     ![c].imageWidth = Photos[calls[c].uri].w,
                                     ![c].imageHeight = Photos[calls[c].uri].h ]
          /\ tensors' = tensors \cup { ImageTensor(c) }
  /\ UNCHANGED <<isInitialized, config, results, built, uploads, faults, ivars, rvars, kvars>>

\* a detector call whose catch block passes the failure on: processImage is left
\* through its finally block, with the error going to the caller
DetectorRethrows(c, by, field, next, ops, f, value) ==
  LET run == RunOps(ops, f)
  IN  /\ calls' = [ calls EXCEPT ![c] =
                      IF run.failed
                      THEN [ @ EXCEPT !.pc = "threw", !.cause = by \o " detector failed",
                                      !.faulted = @ \cup { by } ]
                      ELSE [ @ EXCEPT !.pc = next, ![field] = value ] ]
      /\ tensors' = (tensors \cup TensorsOf(c, by, run.alive))
                      \ (IF run.failed THEN { ImageTensor(c) } ELSE {})
      /\ faults' = IF run.failed THEN faults + 1 ELSE faults
      /\ UNCHANGED <<isInitialized, config, results, built, uploads, ivars, rvars, kvars>>

\* one detector call, from its first statement to its return: the value it
\* returns (null after a failure, which its catch block logs), the tensors it
\* leaves alive, and the failure noted
DetectorReturns(c, by, field, next, ops, f, value) ==
  LET run == RunOps(ops, f)
  IN  /\ calls' = [ calls EXCEPT ![c] =
                      [ @ EXCEPT !.pc = next,
                                 ![field] = IF run.failed THEN Null ELSE value,
                                 !.faulted = IF run.failed THEN @ \cup { by } ELSE @ ] ]
      /\ tensors' = tensors \cup TensorsOf(c, by, run.alive)
      /\ faults' = IF run.failed THEN faults + 1 ELSE faults
      /\ UNCHANGED <<isInitialized, config, results, built, uploads, ivars, rvars, kvars>>

DetectVehicle(c, f) ==
  /\ calls[c].pc = "vehicle"
  /\ DetectorReturns(c, "vehicle", "vehicleRegion", "plate", VehicleOps, f,
                     Detections[calls[c].uri][FALSE].vehicleRegion)

DetectPlate(c, f) ==
  /\ calls[c].pc = "plate"
  /\ DetectorReturns(c, "plate", "licensePlate", "logo", PlateOps, f,
                     Detected(c).licensePlate)

DetectLogo(c, f) ==
  /\ calls[c].pc = "logo"
  /\ DetectorReturns(c, "logo", "logoRegion", "color", LogoOps, f,
                     Detected(c).logoRegion)

DetectColor(c, f) ==
  /\ calls[c].pc = "color"
  /\ DetectorReturns(c, "color", "vehicleColor", "build",
                     ColorOps(calls[c].vehicleRegion), f, Detected(c).vehicleColor)

\* a readiness test that also holds the confidences against minLogoConfidence
isReadyForCloudLogoGated(vehicleRegion, licensePlate, cfg) ==
  \/ /\ vehicleRegion.some
     /\ RatGeq(vehicleRegion.confidence, cfg.minVehicleConfidence)
     /\ RatGeq(vehicleRegion.confidence, cfg.minLogoConfidence)
  \/ /\ licensePlate.some
     /\ RatGeq(licensePlate.confidence, cfg.minPlateConfidence)
     /\ RatGeq(licensePlate.confidence, cfg.minLogoConfidence)

\* a readiness test that wants the confidence above its threshold
isReadyForCloudStrict(vehicleRegion, licensePlate, cfg) ==
  \/ vehicleRegion.some /\ RatGt(vehicleRegion.confidence, cfg.minVehicleConfidence)
  \/ licensePlate.some /\ RatGt(licensePlate.confidence, cfg.minPlateConfidence)

\* the readiness test of processImage: a region that is absent never counts,
\* and a comparison with NaN is false
isReadyForCloud(vehicleRegion, licensePlate, cfg) ==
  \/ vehicleRegion.some /\ RatGeq(vehicleRegion.confidence, cfg.minVehicleConfidence)
  \/ licensePlate.some /\ RatGeq(licensePlate.confidence, cfg.minPlateConfidence)

\* new Date() in call c: a valid date, later for a later call; ms counts the
\* milliseconds since midnight UTC of the day
Now(c) == [ valid |-> TRUE, day |-> "2024-03-09", ms |-> 32645007 + 3661001 * (c - 1) ]

\* n in decimal, padded with zeros to the given width
Padded0(n, width) ==
  LET digits == ToString(n)
  IN  IF Len(digits) >= width THEN digits
      ELSE IF width - Len(digits) = 1 THEN "0" \o digits
      ELSE "00" \o digits

\* Date.prototype.toISOString: YYYY-MM-DDTHH:mm:ss.sssZ
toISOString(date) ==
  date.day \o "T" \o Padded0(date.ms \div 3600000, 2)
           \o ":" \o Padded0((date.ms \div 60000) % 60, 2)
           \o ":" \o Padded0((date.ms \div 1000) % 60, 2)
           \o "." \o Padded0(date.ms % 1000, 3) \o "Z"

\* the object literal processImage builds (processingTimeMs, a clock
\* difference, is left out; the id is the call's number)
NewResult(c, ready) ==
  [ built |-> TRUE,
    id |-> c,
    timestamp |-> Now(c),
    imageUri |-> calls[c].uri,
    imageBase64 |-> "base64:" \o calls[c].uri,
    vehicleRegion |-> calls[c].vehicleRegion,
    licensePlate |-> calls[c].licensePlate,
    logoRegion |-> calls[c].logoRegion,
    vehicleColor |-> calls[c].vehicleColor,
    imageWidth |-> calls[c].imageWidth,
    imageHeight |-> calls[c].imageHeight,
    isReadyForCloud |-> ready,
    cloudUploadStatus |-> "pending" ]

\* result.timestamp.toISOString() throws on an invalid date
PayloadThrows(result) == ~result.timestamp.valid

\* a payload whose plate box is read from the vehicle region
prepareCloudPayloadPlateFromVehicle(result) ==
  [ detectionId |-> result.id,
    imageBase64 |-> result.imageBase64,
    boundingBoxes |->
      [ vehicle |-> IF result.vehicleRegion.some THEN result.vehicleRegion.bbox ELSE Null,
        licensePlate |-> IF result.vehicleRegion.some THEN result.vehicleRegion.bbox ELSE Null,
        logo |-> IF result.logoRegion.some THEN result.logoRegion.bbox ELSE Null ],
    vehicleInfo |->
      [ type |-> IF result.vehicleRegion.some THEN result.vehicleRegion.type ELSE "null",
        color |-> result.vehicleColor ],
    metadata |->
      [ timestamp |-> toISOString(result.timestamp),
        deviceInfo |-> "React Native / Expo",
        imageWidth |-> result.imageWidth,
        imageHeight |-> result.imageHeight ] ]

\* the payload of a result; a box left out (undefined) is written Null, the
\* type null is written "null"
prepareCloudPayload(result) ==
  [ detectionId |-> result.id,
    imageBase64 |-> result.imageBase64,
    boundingBoxes |->
      [ vehicle |-> IF result.vehicleRegion.some THEN result.vehicleRegion.bbox ELSE Null,
        licensePlate |-> IF result.licensePlate.some THEN result.licensePlate.bbox ELSE Null,
        logo |-> IF result.logoRegion.some THEN result.logoRegion.bbox ELSE Null ],
    vehicleInfo |->
      [ type |-> IF result.vehicleRegion.some THEN result.vehicleRegion.type ELSE "null",
        color |-> result.vehicleColor ],
    metadata |->
      [ timestamp |-> toISOString(result.timestamp),
        deviceInfo |-> "React Native / Expo",
        imageWidth |-> result.imageWidth,
        imageHeight |-> result.imageHeight ] ]

\* the payload uploadToCloud prepares from the result of call c and logs; none
\* when preparing it throws
PreparedPayloads(c, result) ==
  LET uploading == [ result EXCEPT !.cloudUploadStatus = "uploading" ]
  IN  IF PayloadThrows(uploading) THEN {}
      ELSE { [ call |-> c, payload |-> prepareCloudPayload(uploading) ] }

\* an upload that also drops the image data of the result it was given
uploadToCloudDropsImage(result) ==
  [ result EXCEPT !.cloudUploadStatus = "uploaded", !.imageBase64 = "" ]

\* uploadToCloud(result) has no await: it runs to its end when called, and
\* leaves the result object with its status set
uploadToCloud(result) ==
  LET uploading == [ result EXCEPT !.cloudUploadStatus = "uploading" ]
  IN  IF PayloadThrows(uploading)
      THEN [ uploading EXCEPT !.cloudUploadStatus = "failed" ]
      ELSE [ uploading EXCEPT !.cloudUploadStatus = "uploaded" ]

\* a last stretch that uploads whenever autoUploadToCloud is set, ready or not
BuildResultUploadsUnready(c) ==
  LET ready == isReadyForCloud(calls[c].vehicleRegion, calls[c].licensePlate, config)
      result == NewResult(c, ready)
      auto == config.autoUploadToCloud
  IN  /\ calls[c].pc = "build"
      /\ built' = [ built EXCEPT ![c] = result ]
      /\ results' = [ results EXCEPT ![c] = IF auto THEN uploadToCloud(result) ELSE result ]
      /\ uploads' = IF auto THEN uploads \cup PreparedPayloads(c, result) ELSE uploads
      /\ tensors' = tensors \ { ImageTensor(c) }
      /\ calls' = [ calls EXCEPT ![c].pc = "returned" ]
      /\ UNCHANGED <<isInitialized, config, faults, ivars, rvars, kvars>>

\* a last stretch that works with the configuration the service was constructed
\* with, whatever setConfig has made of it since
BuildResultUnderDefaultConfig(c) ==
  LET ready == isReadyForCloud(calls[c].vehicleRegion, calls[c].licensePlate, DefaultConfig)
      result == NewResult(c, ready)
      auto == DefaultConfig.autoUploadToCloud /\ ready
  IN  /\ calls[c].pc = "build"
      /\ built' = [ built EXCEPT ![c] = result ]
      /\ results' = [ results EXCEPT ![c] = IF auto THEN uploadToCloud(result) ELSE result ]
      /\ uploads' = IF auto THEN uploads \cup PreparedPayloads(c, result) ELSE uploads
      /\ tensors' = tensors \ { ImageTensor(c) }
      /\ calls' = [ calls EXCEPT ![c].pc = "returned" ]
      /\ UNCHANGED <<isInitialized, config, faults, ivars, rvars, kvars>>

\* the last stretch of processImage: readiness, the result, the auto upload,
\* the finally block, the return
BuildResult(c) ==
  LET ready == isReadyForCloud(calls[c].vehicleRegion, calls[c].licensePlate, config)
      result == NewResult(c, ready)
      auto == config.autoUploadToCloud /\ ready
  IN  /\ calls[c].pc = "build"
      /\ built' = [ built EXCEPT ![c] = result ]
      /\ results' = [ results EXCEPT ![c] = IF auto THEN uploadToCloud(result) ELSE result ]
      /\ uploads' = IF auto THEN uploads \cup PreparedPayloads(c, result) ELSE uploads
      /\ tensors' = tensors \ { ImageTensor(c) }
      /\ calls' = [ calls EXCEPT ![c].pc = "returned" ]
      /\ UNCHANGED <<isInitialized, config, faults, ivars, rvars, kvars>>

\* the host hands a result it was given to uploadToCloud
UploadToCloud(c) ==
  /\ calls[c].pc = "returned"
  /\ results' = [ results EXCEPT ![c] = uploadToCloud(@) ]
  /\ uploads' = uploads \cup PreparedPayloads(c, results[c])
  /\ UNCHANGED <<isInitialized, config, calls, tensors, built, faults, ivars, rvars, kvars>>

Init == ImageIdle /\ RetryIdle /\ ServiceIdle /\ ColorIdle

Next ==
  \/ InitializeOk
  \/ InitializeFails
  \/ \E patch \in ConfigPatches : SetConfig(patch)
  \/ Dispose
  \/ \E c \in Calls, uri \in Uris : StartProcessImage(c, uri)
  \/ \E c \in Calls : ReadAndDecode(c)
  \/ \E c \in Calls : \E f \in FaultChoices(VehicleOps) : DetectVehicle(c, f)
  \/ \E c \in Calls : \E f \in FaultChoices(PlateOps) : DetectPlate(c, f)
  \/ \E c \in Calls : \E f \in FaultChoices(LogoOps) : DetectLogo(c, f)
  \/ \E c \in Calls : \E f \in FaultChoices(ColorOps(calls[c].vehicleRegion)) : DetectColor(c, f)
  \/ \E c \in Calls : BuildResult(c)
  \/ \E c \in Calls : UploadToCloud(c)

Spec == Init /\ [][Next]_vars

(***************************************************************************)
(* Two processImage calls in flight at once on an initialized service      *)
(* whose configuration nobody changes: every interleaving of their await   *)
(* points.                                                                 *)
(***************************************************************************)
TwoCalls == { 1, 2 }

\* the configurations the two calls may run under
PairConfigs ==
  { DefaultConfig,
    Merge(DefaultConfig, [ autoUploadToCloud |-> TRUE ]),
    Merge(DefaultConfig, [ minVehicleConfidence |-> Rat(1, 1),
                           minPlateConfidence |-> Rat(1, 1) ]) }

InitPair ==
  /\ ImageIdle
  /\ RetryIdle
  /\ ColorIdle
  /\ isInitialized = TRUE
  /\ config \in PairConfigs
  /\ calls = [ c \in TwoCalls |-> IdleCall ]
  /\ tensors = {}
  /\ results = [ c \in TwoCalls |-> NoResult ]
  /\ built = [ c \in TwoCalls |-> NoResult ]
  /\ uploads = {}
  /\ faults = 0

NextPair ==
  \/ \E c \in TwoCalls, uri \in Uris : StartProcessImage(c, uri)
  \/ \E c \in TwoCalls : ReadAndDecode(c)
  \/ \E c \in TwoCalls : \E f \in FaultChoices(VehicleOps) : DetectVehicle(c, f)
  \/ \E c \in TwoCalls : \E f \in FaultChoices(PlateOps) : DetectPlate(c, f)
  \/ \E c \in TwoCalls : \E f \in FaultChoices(LogoOps) : DetectLogo(c, f)
  \/ \E c \in TwoCalls : \E f \in FaultChoices(ColorOps(calls[c].vehicleRegion)) : DetectColor(c, f)
  \/ \E c \in TwoCalls : BuildResult(c)

SpecPair == InitPair /\ [][NextPair]_vars

(***************************************************************************)
(* Specification SpecConfig: one processImage call that started under the  *)
(* configuration the service is constructed with, and the setConfig calls  *)
(* the host makes while it is in flight.                                    *)
(***************************************************************************)
\* where a call stands between its start and its return
InFlight == { "read", "vehicle", "plate", "logo", "color", "build" }

\* the service initialized and never configured, the first call just started
InitConfig ==
  /\ isInitialized = TRUE
  /\ config = DefaultConfig
  /\ \E uri \in DOMAIN Photos :
       calls = [ c \in Calls |-> IF c = 1 THEN [ IdleCall EXCEPT !.pc = "read", !.uri = uri ]
                                 ELSE IdleCall ]
  /\ tensors = {}
  /\ results = [ c \in Calls |-> NoResult ]
  /\ built = [ c \in Calls |-> NoResult ]
  /\ uploads = {}
  /\ faults = 0
  /\ ImageIdle
  /\ RetryIdle
  /\ ColorIdle

NextConfig ==
  \/ \E patch \in ConfigPatches : calls[1].pc \in InFlight /\ SetConfig(patch)
  \/ \E c \in Calls : ReadAndDecode(c)
  \/ \E c \in Calls : \E f \in FaultChoices(VehicleOps) : DetectVehicle(c, f)
  \/ \E c \in Calls : \E f \in FaultChoices(PlateOps) : DetectPlate(c, f)
  \/ \E c \in Calls : \E f \in FaultChoices(LogoOps) : DetectLogo(c, f)
  \/ \E c \in Calls : \E f \in FaultChoices(ColorOps(calls[c].vehicleRegion)) : DetectColor(c, f)
  \/ \E c \in Calls : BuildResult(c)

SpecConfig == InitConfig /\ [][NextConfig]_vars

(***************************************************************************)
(* Specification SpecColor: rgbToHsl, getColorName and detectVehicleColor  *)
(* applied once to an input drawn from bounded sets.                       *)
(***************************************************************************)
\* hue in degrees, saturation and lightness in percent: the values at and about
\* the thresholds of getColorName
HueSamples ==
  { Rat(n, 1) : n \in { 0, 10, 20, 21, 45, 46, 65, 66, 160, 161, 200, 201, 250, 251,
                        290, 291, 339, 340, 359 } }
  \cup { Rat(41, 2), Rat(679, 2), Rat(719, 2) }

SaturationSamples == { Rat(n, 1) : n \in { 0, 15, 16, 60, 100 } } \cup { Rat(31, 2) }

LightnessSamples ==
  { Rat(n, 1) : n \in { 0, 15, 16, 50, 55, 56, 84, 85, 100 } } \cup { Rat(31, 2), Rat(169, 2) }

HslTriples ==
  { [ h |-> h, s |-> s, l |-> l ] :
      h \in HueSamples, s \in SaturationSamples, l \in LightnessSamples }

\* channel values 0..255: the ends, the middle, and values that put the hue,
\* the saturation or the lightness at or about a threshold
ChannelSamples ==
  { 15 * i : i \in 0 .. 17 } \cup { 1, 26, 38, 39, 46, 85, 115, 127, 128, 170, 213, 217, 254 }

RgbTriples == ChannelSamples \X ChannelSamples \X ChannelSamples

\* pairs of pixel colours: within one bucket, in different buckets
ColorPairs ==
  { << Navy, <<31, 0, 63>> >>, << Navy, White >>, << White, Black >>,
    << <<200, 30, 30>>, <<223, 31, 0>> >>, << <<96, 127, 255>>, <<97, 96, 224>> >>,
    << <<255, 255, 0>>, <<0, 255, 255>> >> }

\* small images of two colours, one of them too small for a central crop
ColorImages ==
  { MkImage(d[1], d[2], pair[1], pair[2], kind, 0, 0) :
      d \in { <<1, 1>>, <<4, 6>>, <<5, 5>> }, pair \in ColorPairs, kind \in PatternKinds }

\* no region, or a vehicle region within the image
ColorHints(im) ==
  { Null } \cup
  { [ some |-> TRUE, type |-> "front", confidence |-> Rat(95, 100),
      bbox |-> [ x |-> b[1], y |-> b[2], width |-> b[3], height |-> b[4] ] ] :
      b \in { c \in (0 .. 1) \X (0 .. 1) \X (1 .. 3) \X (2 .. 3) :
                c[1] + c[3] <= im.w /\ c[2] + c[4] <= im.h } }

InitColor ==
  /\ \/ \E t \in HslTriples :
          kin = [ kind |-> "hsl", h |-> t.h, s |-> t.s, l |-> t.l ] /\ kpc = "name" /\ khsl = t
     \/ \E t \in RgbTriples :
          kin = [ kind |-> "rgb", r |-> t[1], g |-> t[2], b |-> t[3] ] /\ kpc = "hsl" /\ khsl = Unset
     \/ \E im \in ColorImages : \E region \in ColorHints(im) :
          kin = [ kind |-> "image", im |-> im, vehicleRegion |-> region ]
          /\ kpc = "detect" /\ khsl = Unset
  /\ kname = ""
  /\ kout = Unset
  /\ ImageIdle
  /\ RetryIdle
  /\ ServiceIdle

ConvertRgbToHsl ==
  /\ kpc = "hsl"
  /\ khsl' = rgbToHsl(kin.r, kin.g, kin.b)
  /\ kpc' = "name"
  /\ UNCHANGED <<kin, kname, kout, ivars, rvars, svars>>

NameColor ==
  /\ kpc = "name"
  /\ kname' = getColorName(khsl.h, khsl.s, khsl.l)
  /\ kpc' = "done"
  /\ UNCHANGED <<kin, khsl, kout, ivars, rvars, svars>>

ClassifyImage ==
  /\ kpc = "detect"
  /\ kout' = detectVehicleColor(kin.im, kin.vehicleRegion)
  /\ kpc' = "done"
  /\ UNCHANGED <<kin, khsl, kname, ivars, rvars, svars>>

NextColor == ConvertRgbToHsl \/ NameColor \/ ClassifyImage

SpecColor == InitColor /\ [][NextColor]_vars

(***************************************************************************)
(* Claims about uploadWithRetry (specification SpecRetry).                 *)
(***************************************************************************)
\* t occurs in s
Contains(s, t) ==
  \E i \in 1 .. Len(s) - Len(t) + 1 : SubSeq(s, i, i + Len(t) - 1) = t

IsAttempt(i) == rlog[i].kind = "attempt"
AttemptsMade == { i \in 1 .. Len(rlog) : IsAttempt(i) }

\* C2: when the transport fails on attempts 1..k-1 and succeeds on attempt k
\* (k <= maxRetries), uploadWithRetry returns success with the job id of
\* attempt k and makes no upload attempt after it.
C2_SuccessAtAttemptK ==
  \A i \in AttemptsMade :
    rlog[i].ok =>
      /\ rlog[i].n <= maxRetries
      /\ Cardinality({ j \in AttemptsMade : j <= i }) = rlog[i].n
      /\ \A j \in AttemptsMade : j < i => ~rlog[j].ok
      /\ i = Len(rlog)
      /\ rpc = "done"
      /\ rret = [ returned |-> TRUE, success |-> TRUE, jobId |-> rlog[i].jobId ]

\* fail, fail, succeed with maxRetries = 3
C2_Witness ==
  /\ maxRetries = 3
  /\ rpc = "done"
  /\ rret.returned /\ rret.success
  /\ Cardinality(AttemptsMade) = 3
  /\ rret.jobId = "job_1700000000500"

\* C3: with a transport that always fails the call ends after exactly
\* maxRetries attempts, never makes more than maxRetries attempts, and returns
\* success = false with an error text that contains the reason of the last
\* failure.
C3_ExhaustedAfterMaxRetries ==
  /\ Cardinality(AttemptsMade) <= maxRetries
  /\ (rpc = "done" /\ \A i \in AttemptsMade : ~rlog[i].ok) =>
       /\ Cardinality(AttemptsMade) = maxRetries
       /\ rret.returned /\ ~rret.success
       /\ Contains(rret.error, lastError)
       /\ maxRetries > 0 =>
            /\ IsAttempt(Len(rlog))
            /\ Contains(rret.error, rlog[Len(rlog)].error)
            /\ lastError = ErrorOrUnknown(rlog[Len(rlog)].error)

\* three failures with maxRetries = 3, the last one an HTTP 503
C3_Witness ==
  /\ maxRetries = 3
  /\ rpc = "done"
  /\ rret.returned /\ ~rret.success
  /\ Cardinality(AttemptsMade) = 3
  /\ rret.error = "Failed after 3 attempts: HTTP error! status: 503"

\* C4: a wait of 2^a seconds stands between failed attempt a and attempt a+1,
\* and nowhere else: none before the first attempt, none after a success, none
\* after the last (maxRetries-th) failure.
C4_BackoffSchedule ==
  /\ \A i \in 1 .. Len(rlog) :
       IF IsAttempt(i)
       THEN \/ i = 1 /\ rlog[i].n = 1
            \/ /\ i > 2
               /\ rlog[i - 1].kind = "wait"
               /\ IsAttempt(i - 2)
               /\ rlog[i].n = rlog[i - 2].n + 1
       ELSE /\ i > 1
            /\ IsAttempt(i - 1)
            /\ ~rlog[i - 1].ok
            /\ rlog[i - 1].n < maxRetries
            /\ rlog[i].ms = 1000 * 2 ^ rlog[i - 1].n
  /\ rpc = "done" /\ Len(rlog) > 0 => IsAttempt(Len(rlog))
  /\ rpc = "wait" <=> /\ Len(rlog) > 0
                      /\ IsAttempt(Len(rlog))
                      /\ ~rlog[Len(rlog)].ok
                      /\ rlog[Len(rlog)].n < maxRetries

\* four failures with maxRetries = 4: waits of 2, 4 and 8 seconds, none at the end
C4_Witness ==
  /\ maxRetries = 4
  /\ rpc = "done"
  /\ Len(rlog) = 7
  /\ rlog[2].kind = "wait" /\ rlog[2].ms = 2000
  /\ rlog[4].kind = "wait" /\ rlog[4].ms = 4000
  /\ rlog[6].kind = "wait" /\ rlog[6].ms = 8000
  /\ IsAttempt(7) /\ ~rlog[7].ok

(***************************************************************************)
(* Claims about processImage (specification Spec).                         *)
(***************************************************************************)
Finished(c) == calls[c].pc \in { "returned", "threw" }

\* the confidence q is a number and is at least the threshold t
AtLeast(q, t) == q.d > 0 /\ q.n * t.d >= t.n * q.d

ReadyByThresholds(r, cfg) ==
  \/ r.vehicleRegion.some /\ AtLeast(r.vehicleRegion.confidence, cfg.minVehicleConfidence)
  \/ r.licensePlate.some /\ AtLeast(r.licensePlate.confidence, cfg.minPlateConfidence)

\* C1: whenever processImage returns a result, its isReadyForCloud is true
\* exactly when a vehicle region is present with confidence >= the configured
\* minVehicleConfidence or a plate is present with confidence >= the configured
\* minPlateConfidence; an absent region never counts, equality does.  The
\* thresholds start at 0.5 and 0.4.
C1_ReadyIffThresholdMet ==
  /\ config.minVehicleConfidence = Rat(5, 10) /\ config.minPlateConfidence = Rat(4, 10)
  /\ [][ \A c \in Calls :
           (calls[c].pc = "build" /\ calls'[c].pc = "returned") =>
             /\ results'[c].built
             /\ results'[c].vehicleRegion = calls[c].vehicleRegion
             /\ results'[c].licensePlate = calls[c].licensePlate
             /\ results'[c].isReadyForCloud <=> ReadyByThresholds(results'[c], config) ]_vars

\* a result that is ready only because the vehicle's confidence equals its
\* threshold: the plate is present but below its own
C1_Witness ==
  \E c \in Calls :
    /\ calls[c].pc = "returned"
    /\ results[c].isReadyForCloud
    /\ results[c].vehicleRegion.some
    /\ results[c].vehicleRegion.confidence = config.minVehicleConfidence
    /\ results[c].licensePlate.some
    /\ ~AtLeast(results[c].licensePlate.confidence, config.minPlateConfidence)

\* C5: a call in which a numeric computation failed inside a detector fails
\* towards its caller; it never returns a result (in which the detector's
\* field would merely be absent).
C5_DetectorFailureSurfaces ==
  \A c \in Calls : calls[c].pc = "returned" => calls[c].faulted = {}

\* the part of C6 about the file: a call whose file cannot be read or decoded
\* throws that cause, builds no result, runs no detector, starts no upload
ReadOrDecodeFailureIsFatal ==
  \A c \in Calls :
    (calls[c].pc \notin { "idle", "read" } /\ calls[c].cause # "Service not initialized"
       /\ ~(Readable(calls[c].uri) /\ Decodable(calls[c].uri))) =>
      /\ calls[c].pc = "threw"
      /\ calls[c].cause = IF Readable(calls[c].uri) THEN "decode failed" ELSE "read failed"
      /\ ~results[c].built /\ ~built[c].built
      /\ calls[c].vehicleRegion = Unset /\ calls[c].licensePlate = Unset
      /\ calls[c].logoRegion = Unset /\ calls[c].vehicleColor = Unset
      /\ \A u \in uploads : u.call # c

\* C6: a call whose file cannot be read or decoded fails towards the caller
\* with the cause, returns no result, runs no detector and starts no upload;
\* and no call returns a result with a field left unset by a fatal failure.
C6_NoPartialResult ==
  /\ ReadOrDecodeFailureIsFatal
  /\ \A c \in Calls :
       results[c].built =>
         \A by \in calls[c].faulted :
           /\ by = "vehicle" => results[c].vehicleRegion.some
           /\ by = "plate" => results[c].licensePlate.some
           /\ by = "logo" => results[c].logoRegion.some
           /\ by = "color" => results[c].vehicleColor.some

\* C7: when a processImage call has finished, every tensor created during it,
\* by processImage or by a detector it called, has been disposed.
C7_AllTensorsDisposed ==
  \A c \in Calls : Finished(c) => \A t \in tensors : t.call # c

\* C8: a result is never mutated after its construction: it stays as built.
C8_ResultNeverMutated ==
  \A c \in Calls : built[c].built => results[c] = built[c]

\* C8 as amended: after its construction a result differs from what was built
\* in its cloudUploadStatus at most.
C8_OnlyUploadStatusChanges ==
  \A c \in Calls :
    /\ results[c].built <=> built[c].built
    /\ built[c].built =>
         /\ built[c].cloudUploadStatus = "pending"
         /\ [ results[c] EXCEPT !.cloudUploadStatus = "pending" ] = built[c]

\* a result whose status an upload has changed
C8_Witness ==
  \E c \in Calls :
    /\ built[c].built
    /\ \E u \in uploads : u.call = c
    /\ built[c].cloudUploadStatus = "pending"
    /\ results[c].cloudUploadStatus = "uploaded"

(***************************************************************************)
(* Claims about the detectors (specification SpecImage).                   *)
(***************************************************************************)
\* the grayscale field has one value at every pixel
UniformGray(im) ==
  \A p, q \in Pixels(im.w, im.h) :
    im.px[p][1] + im.px[p][2] + im.px[p][3] = im.px[q][1] + im.px[q][2] + im.px[q][3]

\* C9: on an image whose grayscale field is uniform the vehicle, plate and
\* logo detectors all return absent.
C9_UniformImageFindsNothing ==
  UniformGray(img) => ~vOut.some /\ ~pOut.some /\ ~lOut.some

\* C10: every confidence a detector or the colour classifier emits is a
\* number in [0, 1].
C10_ConfidenceInUnitInterval ==
  /\ vOut.some => InUnitInterval(vOut.confidence)
  /\ pOut.some => InUnitInterval(pOut.confidence)
  /\ lOut.some => InUnitInterval(lOut.confidence)
  /\ cOut.some => InUnitInterval(cOut.confidence)

\* the box lies within the plate search area derived from the vehicle region
\* (bounds in 1/400 pixel): left and top edges not before the start, right
\* and bottom edges not beyond the end
BoxWithinPlateBounds(bbox, bounds) ==
  /\ PlateUnit * bbox.x >= bounds.startX
  /\ PlateUnit * bbox.y >= bounds.startY
  /\ PlateUnit * (bbox.x + bbox.width) <= bounds.endX
  /\ PlateUnit * (bbox.y + bbox.height) <= bounds.endY

\* C11: when the plate detector is given a vehicle region, the bbox of every
\* plate candidate, and so the returned one, lies within the search bounds
\* derived from it: x >= vehicle.x, y >= vehicle.y + 0.3 * vehicle.height,
\* x + width <= vehicle.x + vehicle.width, y + height <= vehicle.y + vehicle.height.
C11_PlateWithinSearchBounds ==
  (ipc = "logo" /\ hint.some) =>
    LET bounds == PlateSearchBounds(img.w, img.h, hint)
        candidates == PlateCandidates(PlateEdges(img), hint)
    IN  /\ \A i \in 1 .. Len(candidates) : BoxWithinPlateBounds(candidates[i].bbox, bounds)
        /\ pOut.some => BoxWithinPlateBounds(pOut.bbox, bounds)

(***************************************************************************)
(* Claims about the order of the pipeline (specification Spec).            *)
(***************************************************************************)
\* the positions of a processImage call that returns, in order
PipelineOrder ==
  << "idle", "read", "vehicle", "plate", "logo", "color", "build", "returned" >>

\* the place of each position in the order; 0 for a call that threw
Ranks ==
  [ pc \in { PipelineOrder[i] : i \in 1 .. Len(PipelineOrder) } \cup { "threw" } |->
      IF pc = "threw" THEN 0
      ELSE CHOOSE i \in 1 .. Len(PipelineOrder) : PipelineOrder[i] = pc ]

Rank(pc) == Ranks[pc]

\* the call is past the step that leaves the given position
Past(c, pc) == Rank(calls[c].pc) > Rank(pc)

\* what the plate, logo and colour detectors return on a photo when handed
\* the given vehicle region and nothing else
HintedOutputs ==
  Table([ uri \in DOMAIN Photos |->
    Table([ vehicleRegion \in { Null, detectVehicleRegion(Photos[uri]) } |->
      [ licensePlate |-> detectLicensePlateRegion(Photos[uri], vehicleRegion),
        logoRegion |-> detectLogoRegion(Photos[uri], vehicleRegion),
        vehicleColor |-> detectVehicleColor(Photos[uri], vehicleRegion) ] ]) ])

\* the detector step of call c that wrote the field ran on this call's photo
\* and this call's vehicle region alone (a failed step wrote null)
FedByOwnVehicleRegion(c, by, field) ==
  calls[c][field] =
    IF by \in calls[c].faulted THEN Null
    ELSE HintedOutputs[calls[c].uri][calls[c].vehicleRegion][field]

\* where call c stands agrees with what it holds
PipelineShape(c) ==
  /\ calls[c].pc = "threw" =>
       /\ calls[c].cause \in { "Service not initialized", "read failed", "decode failed" }
       /\ ImageTensor(c) \notin tensors
  \* decode is complete, and the image alive, while the detectors run
  /\ (Past(c, "read") /\ ~Past(c, "build")) <=> ImageTensor(c) \in tensors
  \* each output exists exactly from the end of its own step on
  /\ calls[c].vehicleRegion # Unset <=> Past(c, "vehicle")
  /\ calls[c].licensePlate # Unset <=> Past(c, "plate")
  /\ calls[c].logoRegion # Unset <=> Past(c, "logo")
  /\ calls[c].vehicleColor # Unset <=> Past(c, "color")
  /\ Past(c, "plate") => FedByOwnVehicleRegion(c, "plate", "licensePlate")
  /\ Past(c, "logo") => FedByOwnVehicleRegion(c, "logo", "logoRegion")
  /\ Past(c, "color") => FedByOwnVehicleRegion(c, "color", "vehicleColor")
  \* the result exists exactly once all four are complete, and holds them
  /\ results[c].built <=> Past(c, "build")
  /\ results[c].built =>
       /\ results[c].vehicleRegion = calls[c].vehicleRegion
       /\ results[c].licensePlate = calls[c].licensePlate
       /\ results[c].logoRegion = calls[c].logoRegion
       /\ results[c].vehicleColor = calls[c].vehicleColor

\* a step of call c moves it to the next position, or out with an error
\* before the image is decoded
PipelineAdvance(c) ==
  calls'[c] # calls[c] =>
    \/ Rank(calls[c].pc) > 0 /\ Rank(calls'[c].pc) = Rank(calls[c].pc) + 1
    \/ calls[c].pc \in { "idle", "read" } /\ calls'[c].pc = "threw"

\* C12: every processImage run is a linear sequence with no step repeated:
\* decode completes before vehicle detection starts, vehicle detection before
\* plate, logo and colour start; each of the three receives the vehicle region
\* of this run and none receives another's output; the result is assembled
\* only after all four have completed.
C12_LinearPipeline ==
  /\ \A c \in Calls : PipelineShape(c)
  /\ [][\A c \in Calls :
          /\ PipelineAdvance(c)
          \* the shape speaks of the call, its result and the tensors alive
          /\ <<calls[c], results[c], tensors>>' # <<calls[c], results[c], tensors>>
               => PipelineShape(c)']_vars

\* a call returned a result on a photo where the vehicle region, found, changes
\* what the plate detector returns, after its logo step alone had failed
C12_Witness ==
  \E c \in Calls :
    /\ calls[c].pc = "returned"
    /\ calls[c].vehicleRegion.some
    /\ calls[c].faulted = { "logo" }
    /\ calls[c].licensePlate.some
    /\ calls[c].licensePlate # HintedOutputs[calls[c].uri][Null].licensePlate

(***************************************************************************)
(* Claims about concurrent calls (specification SpecPair).                 *)
(***************************************************************************)
\* what call c produces when it runs alone on its photo and meets the same
\* numeric failures
AloneOutput(c, by, field) ==
  IF by \in calls[c].faulted THEN Null
  ELSE Detections[calls[c].uri]["vehicle" \in calls[c].faulted][field]

\* the outputs call c holds so far, and its result, are those of a run alone
SameAsAlone(c) ==
  /\ Past(c, "vehicle") => calls[c].vehicleRegion = AloneOutput(c, "vehicle", "vehicleRegion")
  /\ Past(c, "plate") => calls[c].licensePlate = AloneOutput(c, "plate", "licensePlate")
  /\ Past(c, "logo") => calls[c].logoRegion = AloneOutput(c, "logo", "logoRegion")
  /\ Past(c, "color") => calls[c].vehicleColor = AloneOutput(c, "color", "vehicleColor")
  /\ results[c].built =>
       /\ results[c].imageUri = calls[c].uri
       /\ results[c].vehicleRegion = calls[c].vehicleRegion
       /\ results[c].licensePlate = calls[c].licensePlate
       /\ results[c].logoRegion = calls[c].logoRegion
       /\ results[c].vehicleColor = calls[c].vehicleColor
       /\ results[c].isReadyForCloud =
            ReadyByThresholds(results[c], config)

\* a step of one call creates and disposes tensors of that call only
OwnTensorsOnly ==
  \A c \in TwoCalls :
    calls'[c] # calls[c] =>
      \A t \in (tensors' \ tensors) \cup (tensors \ tensors') : t.call = c

\* C13: when two processImage calls on different images run concurrently,
\* their await points interleaved in any order and the configuration fixed,
\* each call's regions, colour and isReadyForCloud equal what that call
\* produces when run alone, and no call reads or disposes a tensor created by
\* the other call.
C13_ConcurrentCallsIndependent ==
  /\ \A c \in TwoCalls : SameAsAlone(c)
  /\ [][OwnTensorsOnly /\ \A c \in TwoCalls : SameAsAlone(c)']_vars

\* both calls are in flight on different photos, the second about to run its
\* colour step while the first, all detectors done, has not yet built its result
C13_Witness ==
  /\ calls[1].pc = "build"
  /\ calls[2].pc = "color"
  /\ calls[1].uri # calls[2].uri
  /\ calls[1].licensePlate # calls[2].licensePlate
  /\ ImageTensor(1) \in tensors /\ ImageTensor(2) \in tensors

(***************************************************************************)
(* Claims about the colour classifier (specification SpecImage).           *)
(***************************************************************************)
\* the colour step has run on a region that has pixels, all of them (26,26,46)
SolidNavySample ==
  LET region == ColorRegion(img.w, img.h, hint)
      data == RegionData(img, region)
  IN  /\ ipc = "done"
      /\ ~region.thrown
      /\ Len(data) > 0
      /\ \A i \in 1 .. Len(data) : data[i] = Navy

\* hex, rgb and confidence of a region of the one colour (26,26,46)
NavyClassified ==
  /\ cOut.some
  /\ cOut.dominant = "#1a1a2e"
  /\ cOut.rgb = [ r |-> 26, g |-> 26, b |-> 46 ]
  /\ cOut.confidence.d > 0 /\ cOut.confidence.n = cOut.confidence.d

\* C14 as stated: classifying a region in which every sampled pixel has RGB
\* (26,26,46), with or without a vehicle-region hint, yields name "Black",
\* dominant hex "#1a1a2e", rgb (26,26,46) and confidence 1.0.
C14_NavyIsNamedBlack ==
  SolidNavySample => NavyClassified /\ cOut.name = "Black"

\* C14, amended: classifying a region in which every sampled pixel has RGB
\* (26,26,46), with or without a vehicle-region hint, yields the code's name
\* for black, 'Den' with its diacritic, dominant hex "#1a1a2e", rgb (26,26,46)
\* and confidence 1.0.
C14_NavyIsNamedDen ==
  SolidNavySample => NavyClassified /\ cOut.name = "Den"

\* a region of the one colour was classified inside a vehicle region
C14_Witness ==
  SolidNavySample /\ hint.some /\ cOut.name = "Den"

(***************************************************************************)
(* Claims about the boxes the detectors emit (specification SpecImage).    *)
(***************************************************************************)
PositiveSize(bbox) == bbox.width > 0 /\ bbox.height > 0

\* C15: every bounding box emitted by the vehicle, plate and logo detectors
\* has width > 0 and height > 0, on every image of width >= 1 and height >= 1,
\* also those narrower than the grid or than the plate and logo windows.
C15_BoxesHavePositiveSize ==
  /\ vOut.some => PositiveSize(vOut.bbox)
  /\ pOut.some => PositiveSize(pOut.bbox)
  /\ lOut.some => PositiveSize(lOut.bbox)

(***************************************************************************)
(* Claims about the cloud payload (specification Spec).                    *)
(***************************************************************************)
Char(s, i) == SubSeq(s, i, i)

IsDigits(s, lo, hi) ==
  \A i \in lo .. hi : \E d \in 0 .. 9 : ToString(d) = Char(s, i)

\* the number the digits lo..hi of s stand for (at most three digits)
RECURSIVE DigitsValue(_, _, _)
DigitsValue(s, lo, hi) ==
  IF lo > hi THEN 0
  ELSE 10 * DigitsValue(s, lo, hi - 1) + (CHOOSE d \in 0 .. 9 : ToString(d) = Char(s, hi))

\* s has the ISO-8601 form YYYY-MM-DDTHH:mm:ss.sssZ, with fields in range
IsIso8601(s) ==
  /\ Len(s) = 24
  /\ IsDigits(s, 1, 4) /\ Char(s, 5) = "-" /\ IsDigits(s, 6, 7) /\ Char(s, 8) = "-"
  /\ IsDigits(s, 9, 10) /\ Char(s, 11) = "T"
  /\ IsDigits(s, 12, 13) /\ Char(s, 14) = ":" /\ IsDigits(s, 15, 16) /\ Char(s, 17) = ":"
  /\ IsDigits(s, 18, 19) /\ Char(s, 20) = "." /\ IsDigits(s, 21, 23) /\ Char(s, 24) = "Z"
  /\ DigitsValue(s, 12, 13) < 24 /\ DigitsValue(s, 15, 16) < 60 /\ DigitsValue(s, 18, 19) < 60

\* the instant an ISO-8601 string names is that of the date
NamesInstant(s, date) ==
  /\ SubSeq(s, 1, 10) = date.day
  /\ 3600000 * DigitsValue(s, 12, 13) + 60000 * DigitsValue(s, 15, 16)
       + 1000 * DigitsValue(s, 18, 19) + DigitsValue(s, 21, 23) = date.ms

\* the box of a region in the payload: the region's bbox, or left out
BoxOrLeftOut(region) == IF region.some THEN region.bbox ELSE Null

\* the payload is the one the result calls for
PayloadOf(payload, r) ==
  /\ payload.detectionId = r.id
  /\ payload.boundingBoxes.vehicle = BoxOrLeftOut(r.vehicleRegion)
  /\ payload.boundingBoxes.licensePlate = BoxOrLeftOut(r.licensePlate)
  /\ payload.boundingBoxes.logo = BoxOrLeftOut(r.logoRegion)
  /\ payload.vehicleInfo.type = (IF r.vehicleRegion.some THEN r.vehicleRegion.type ELSE "null")
  /\ payload.vehicleInfo.color = r.vehicleColor
  /\ payload.metadata.imageWidth = r.imageWidth
  /\ payload.metadata.imageHeight = r.imageHeight
  /\ IsIso8601(payload.metadata.timestamp)
  /\ NamesInstant(payload.metadata.timestamp, r.timestamp)

\* C16: prepareCloudPayload(result) returns a payload with detectionId =
\* result.id, the boxes of the vehicle, plate and logo regions that are present
\* and none for those absent, vehicleInfo.type the vehicle region's type or
\* null, vehicleInfo.color the result's vehicleColor, and metadata with the
\* result's imageWidth, imageHeight and timestamp in ISO-8601; the result's
\* fields it reads are left as processImage built them.
C16_PayloadMatchesResult ==
  \A u \in uploads :
    /\ PayloadOf(u.payload, built[u.call])
    /\ \A k \in DOMAIN built[u.call] \ { "cloudUploadStatus" } :
         results[u.call][k] = built[u.call][k]

\* a payload was prepared for a result in which the vehicle region is absent
\* and the plate and logo regions are present
C16_Witness ==
  \E u \in uploads :
    /\ ~built[u.call].vehicleRegion.some
    /\ built[u.call].licensePlate.some /\ built[u.call].logoRegion.some
    /\ u.payload.boundingBoxes.vehicle = Null
    /\ u.payload.boundingBoxes.licensePlate = built[u.call].licensePlate.bbox
    /\ u.payload.vehicleInfo.type = "null"

(***************************************************************************)
(* Claims about what readiness depends on (specification SpecPair).        *)
(***************************************************************************)
\* values of minLogoConfidence below, between and above the confidences found
LogoThresholds == { Rat(0, 1), Rat(3, 10), Rat(9, 10), Rat(1, 1) }

\* two results agree on the vehicle region and on the plate region
AgreeOnVehicleAndPlate(r1, r2) ==
  /\ r1.vehicleRegion = r2.vehicleRegion
  /\ r1.licensePlate = r2.licensePlate

\* the run that builds the result of call c in this step yields the
\* isReadyForCloud it would yield under any other minLogoConfidence
SameUnderAnyLogoThreshold(c) ==
  (calls[c].pc = "build" /\ calls'[c].pc = "returned") =>
    \A m \in LogoThresholds :
      built'[c].isReadyForCloud =
        isReadyForCloud(built'[c].vehicleRegion, built'[c].licensePlate,
                        [ config EXCEPT !.minLogoConfidence = m ])

\* two runs under the same vehicle and plate thresholds that agree on the
\* vehicle and plate regions agree on isReadyForCloud
SameWhateverTheLogo ==
  \A c, d \in TwoCalls :
    (built[c].built /\ built[d].built /\ AgreeOnVehicleAndPlate(built[c], built[d])) =>
      built[c].isReadyForCloud = built[d].isReadyForCloud

\* C17: isReadyForCloud does not depend on the logo: two processImage runs
\* that agree on the vehicle region, the plate region, minVehicleConfidence and
\* minPlateConfidence yield the same isReadyForCloud whatever their
\* minLogoConfidence values and logo results are.
C17_ReadinessIgnoresLogo ==
  /\ SameWhateverTheLogo
  /\ [][ /\ SameWhateverTheLogo'
         /\ \A c \in TwoCalls : SameUnderAnyLogoThreshold(c) ]_vars

\* two runs on one photo agree on vehicle and plate, one has a logo and the
\* other, its logo step failed, has none; both are ready
C17_Witness ==
  /\ built[1].built /\ built[2].built
  /\ AgreeOnVehicleAndPlate(built[1], built[2])
  /\ built[1].vehicleRegion.some
  /\ built[1].logoRegion.some # built[2].logoRegion.some
  /\ built[1].isReadyForCloud /\ built[2].isReadyForCloud

(***************************************************************************)
(* Claims about how a detector ends (specification Spec).                  *)
(***************************************************************************)
\* the positions at which a detector is called, with the detector's name (the
\* positions carry it) and the field its return value goes to
DetectorField ==
  [ vehicle |-> "vehicleRegion", plate |-> "licensePlate",
    logo |-> "logoRegion", color |-> "vehicleColor" ]

\* what the detector called at call c's position computes on the call's photo
Computes(c) == Detected(c)[DetectorField[calls[c].pc]]

\* the step is the call, by c, of the detector of c's position, up to its return
EndsWithValueOrAbsent(c) ==
  (calls[c].pc \in DOMAIN DetectorField /\ calls'[c] # calls[c]) =>
    LET by == calls[c].pc
        out == calls'[c][DetectorField[by]]
    IN  \* the caller goes on to its next statement: no error reaches it
        /\ calls'[c].pc # "threw" /\ calls'[c].cause = ""
        /\ Rank(calls'[c].pc) = Rank(by) + 1
        \* with a value or with null
        /\ out = Null \/ out.some
        \* a detector that did not fail returns what it computes: null when
        \* nothing clears its threshold, and no failure is noted
        /\ faults' = faults => /\ out = Computes(c)
                               /\ calls'[c].faulted = calls[c].faulted
        \* one that failed returns null
        /\ faults' # faults => out = Null /\ calls'[c].faulted = calls[c].faulted \cup { by }

\* C18: each detector operation (detectVehicleRegion, detectLicensePlateRegion,
\* detectLogoRegion, detectVehicleColor) always completes with either a value
\* or absent (null) and never fails towards its caller; 'nothing found' is
\* reported as absent, never as an error.
C18_DetectorsNeverFailTowardsCaller ==
  [][\A c \in Calls : EndsWithValueOrAbsent(c)]_vars

\* a call returned a result after one detector found nothing and reported it
\* absent without a failure, and another failed and returned null
C18_Witness ==
  \E c \in Calls :
    /\ calls[c].pc = "returned"
    /\ calls[c].vehicleRegion = Null /\ "vehicle" \notin calls[c].faulted
    /\ calls[c].faulted # {}
    /\ results[c].built

(***************************************************************************)
(* Claims about the vehicle detector's scan (specification SpecImage).     *)
(***************************************************************************)
\* the window of 3 x 3 cells whose top-left grid cell is (gx, gy)
GridWindow(im, gx, gy) ==
  [ x |-> gx * (im.w \div GridSize), y |-> gy * (im.h \div GridSize),
    width |-> 3 * (im.w \div GridSize), height |-> 3 * (im.h \div GridSize) ]

\* the region returned is a window with gx and gy in the given range
ReturnsWindowFrom(range) ==
  vOut.some => \E gx, gy \in range : vOut.bbox = GridWindow(img, gx, gy)

\* C19 as stated: the vehicle detector evaluates exactly the 3x3-cell windows
\* of an 8x8 grid whose top-left cell (gx, gy) has gx, gy in [0, gridSize - 3),
\* that is 0..4; no window outside that range is scored or can be returned.
C19_WindowsUpToGridMinus4 ==
  GridSize = 8 /\ ReturnsWindowFrom(0 .. GridSize - 4)

\* C19, amended: the range is [0, gridSize - 2), that is 0..5: every window of
\* 3x3 cells that lies within the grid, and no other, can be returned.
C19_WindowsUpToGridMinus3 ==
  GridSize = 8 /\ ReturnsWindowFrom(0 .. GridSize - 3)

\* the window returned is the last of the grid in both directions: gx = gy = 5
C19_Witness ==
  vOut.some /\ vOut.bbox = GridWindow(img, GridSize - 3, GridSize - 3)

\* the grid positions of the scan, numbered in row-major order (gy outer, gx inner)
ScanPositions == (0 .. GridSize - 3) \X (0 .. GridSize - 3)
ScanOrder(g) == g[2] * (GridSize - 2) + g[1]

\* the number of edge pixels of the image within the window at grid position g
EdgeCount(c, g) ==
  Cardinality({ p \in Pixels(c.w, c.h) :
                  /\ p[1] >= g[1] * c.cellWidth /\ p[1] < (g[1] + 3) * c.cellWidth
                  /\ p[2] >= g[2] * c.cellHeight /\ p[2] < (g[2] + 3) * c.cellHeight
                  /\ c.edgeData[p] })

\* what the claim says the detector returns, from the counts of all windows:
\* densities are counts over the one window area, 0/0 when a cell is empty
ByMaxDensity(im) ==
  LET c == VehicleEdges(im)
      area == 9 * c.cellWidth * c.cellHeight
      count == [ g \in ScanPositions |-> EdgeCount(c, g) ]
      most == CHOOSE m \in { count[g] : g \in ScanPositions } :
                \A g \in ScanPositions : count[g] <= m
      first == CHOOSE g \in ScanPositions :
                 /\ count[g] = most
                 /\ \A g2 \in ScanPositions : count[g2] = most => ScanOrder(g) <= ScanOrder(g2)
  IN  [ found |-> area > 0 /\ 20 * most > area,
        tied |-> Cardinality({ g \in ScanPositions : count[g] = most }) > 1,
        bbox |-> GridWindow(im, first[1], first[2]),
        \* min(5 * maxDensity, 0.95)
        confidence |-> IF 100 * most <= 19 * area THEN Rat(5 * most, area) ELSE Rat(95, 100) ]

\* two quotients with non-zero denominators are the same number
SameNumber(a, b) == a.d # 0 /\ b.d # 0 /\ a.n * b.d = b.n * a.d

\* C20: detectVehicleRegion returns a region if and only if the maximum
\* window edge density over the scan is > 0.05; the bbox returned is then the
\* first window, in row-major scan order (gy outer, gx inner), that attains the
\* maximum, and the confidence is min(5 * maxDensity, 0.95).
C20_FirstDensestWindow ==
  ipc = "plate" =>
    LET claimed == ByMaxDensity(img)
    IN  /\ vOut.some <=> claimed.found
        /\ vOut.some => /\ vOut.bbox = claimed.bbox
                        /\ SameNumber(vOut.confidence, claimed.confidence)

\* a region was returned where several windows attain the maximum density
C20_Witness ==
  ipc = "plate" /\ vOut.some /\ ByMaxDensity(img).tied

(***************************************************************************)
(* C21: every emitted vehicle region is typed "rear" exactly when the      *)
(* vertical centre of its box, y + height / 2, lies strictly below the     *)
(* middle row imageHeight / 2 of the image, and "front" otherwise, a       *)
(* centre exactly at mid-height included; "side" is never emitted.         *)
(***************************************************************************)
VerticalCentre(bbox) == Rat(2 * bbox.y + bbox.height, 2)

MidHeight(im) == Rat(im.h, 2)

AtMidHeight(bbox, im) ==
  RatGeq(VerticalCentre(bbox), MidHeight(im)) /\ RatLeq(VerticalCentre(bbox), MidHeight(im))

C21_TypeByVerticalCentre ==
  (ipc # "vehicle" /\ vOut.some) =>
     /\ vOut.type \in {"front", "rear"}
     /\ vOut.type = "rear" <=> RatGt(VerticalCentre(vOut.bbox), MidHeight(img))
     /\ AtMidHeight(vOut.bbox, img) => vOut.type = "front"

\* a region whose centre is exactly at mid-height was emitted
C21_Witness ==
  /\ ipc # "vehicle" /\ vOut.some
  /\ AtMidHeight(vOut.bbox, img)

\* a region whose centre is below mid-height was emitted
C21_WitnessRear ==
  /\ ipc # "vehicle" /\ vOut.some
  /\ RatGt(VerticalCentre(vOut.bbox), MidHeight(img))

(***************************************************************************)
(* C22: the plate detector's acceptance, score, choice and confidence.     *)
(***************************************************************************)
\* every window the scan visits, in scan order: sizes outer, then y, then x
PlateScan(c, vehicleRegion) ==
  LET bounds == PlateSearchBounds(c.w, c.h, vehicleRegion)
      sizes == PlateSizes(c.w)
  IN  Table(PlateWindows(c, sizes[1], bounds) \o PlateWindows(c, sizes[2], bounds))

\* edgeDensity: the normalised edge values summed, over the window's area
\* k * W^2 / 800; 0/0 when the maximum edge value is 0
EdgeDensity(c, win) == Rat(800 * win.sum, c.maxEdge * win.k * c.w * c.w)

\* horizontalEdgeRatio: the count of strong edge pixels over the window's area
HorizontalEdgeRatio(c, win) == Rat(800 * win.horizontalEdges, win.k * c.w * c.w)

AcceptedByThresholds(c, win) ==
  /\ RatGt(EdgeDensity(c, win), Rat(15, 100))
  /\ RatGt(HorizontalEdgeRatio(c, win), Rat(1, 10))

\* 0.6 * edgeDensity + 0.4 * horizontalEdgeRatio, in units of
\* 160 / (maxEdge * W^2), the same positive unit for every window of an image
WeightedScore(c, win) == Rat(3 * win.sum + 2 * win.horizontalEdges * c.maxEdge, win.k)

\* what the claim says the detector returns
ByHighestScore(im, vehicleRegion) ==
  LET c == PlateEdges(im)
      scan == PlateScan(c, vehicleRegion)
      accepted == { i \in 1 .. Len(scan) : AcceptedByThresholds(c, scan[i]) }
      score == Table([ i \in accepted |-> WeightedScore(c, scan[i]) ])
      scores == { score[i] : i \in accepted }
      highest == CHOOSE v \in scores : \A u \in scores : RatGeq(v, u)
      top == { i \in accepted : RatGeq(score[i], highest) }
      best == CHOOSE i \in top : \A j \in top : i <= j
  IN  [ found |-> accepted # {},
        agrees |-> \A i \in 1 .. Len(scan) : scan[i].accepted <=> (i \in accepted),
        scanned |-> Len(scan),
        tied |-> accepted # {} /\ Cardinality({ scan[i].bbox : i \in top }) > 1,
        beaten |-> accepted # top,
        bbox |-> IF accepted = {} THEN Null ELSE scan[best].bbox,
        \* min(2 * score, 0.9)
        confidence |-> IF accepted = {} THEN NaN
                       ELSE RatMin(Rat(320 * score[best].n, c.maxEdge * scan[best].k * c.w * c.w),
                                   Rat(9, 10)) ]

\* C22: detectLicensePlateRegion accepts a window if and only if
\* edgeDensity > 0.15 and horizontalEdgeRatio > 0.1, scores it
\* 0.6 * edgeDensity + 0.4 * horizontalEdgeRatio, returns absent when no window
\* is accepted, and otherwise returns the candidate of highest score, the one
\* scanned first among equal scores, with confidence min(2 * score, 0.9).
C22_HighestScoreFirstScanned ==
  ipc = "logo" =>
    LET claimed == ByHighestScore(img, hint)
    IN  /\ claimed.agrees
        /\ pOut.some <=> claimed.found
        /\ pOut.some => /\ pOut.bbox = claimed.bbox
                        /\ pOut.confidence = claimed.confidence

\* a plate was returned where windows of different boxes share the highest score
C22_Witness ==
  ipc = "logo" /\ pOut.some /\ ByHighestScore(img, hint).tied

\* a plate was returned where an accepted window has a lower score
C22_WitnessBeaten ==
  ipc = "logo" /\ pOut.some /\ ByHighestScore(img, hint).beaten

\* no plate was returned although windows were scanned
C22_WitnessAbsent ==
  ipc = "logo" /\ ~pOut.some /\ ByHighestScore(img, hint).scanned > 0

(***************************************************************************)
(* C23: detectLogoRegion scores only positions whose bounding square stays *)
(* inside the image, so every emitted logo box satisfies x >= 0, y >= 0,   *)
(* x + width <= imageWidth and y + height <= imageHeight, with or without  *)
(* a vehicle-region hint.                                                  *)
(***************************************************************************)
BoxWithinImage(bbox, im) ==
  /\ bbox.x >= 0 /\ bbox.y >= 0
  /\ bbox.x + bbox.width <= im.w
  /\ bbox.y + bbox.height <= im.h

\* whether the scan of the image meets a position it does not score
LogoScanSkips(im, vehicleRegion) ==
  LET search == LogoSearch(im.w, im.h, vehicleRegion)
      halfSizes == LogoHalfSizes(im.w)
  IN  \E s \in 1 .. 3 :
        /\ search.radius > 0
        /\ \/ search.centerX - search.radius < halfSizes[s]
           \/ search.centerY - search.radius < halfSizes[s]

C23_LogoWithinImage ==
  (ipc \in { "color", "done" } /\ lOut.some) => BoxWithinImage(lOut.bbox, img)

\* a logo was emitted under a vehicle-region hint by a scan that skips positions
C23_Witness ==
  /\ ipc = "color" /\ lOut.some /\ hint.some
  /\ LogoScanSkips(img, hint)

\* a logo was emitted without a hint by a scan that skips positions
C23_WitnessUnhinted ==
  /\ ipc = "color" /\ lOut.some /\ ~hint.some
  /\ LogoScanSkips(img, hint)

(***************************************************************************)
(* Claims about the colour classifier (specification SpecColor).  The      *)
(* colours are written by the names getColorName returns: Trang (white),   *)
(* Den (black), Bac (silver), Xam (gray), Do (red), Cam (orange), Vang     *)
(* (yellow), Xanh la (green), Xanh ngoc (cyan / teal), Xanh duong (blue),  *)
(* Tim (purple), Hong (pink); Khong xac dinh (unknown) is the fallback.    *)
(***************************************************************************)
\* lo <= x <= hi, lo < x <= hi, lo <= x < hi, lo < x < hi for whole lo and hi
Within(lo, x, hi) == RatGeq(x, Rat(lo, 1)) /\ RatLeq(x, Rat(hi, 1))
AboveUpTo(lo, x, hi) == RatGt(x, Rat(lo, 1)) /\ RatLeq(x, Rat(hi, 1))
FromBelow(lo, x, hi) == RatGeq(x, Rat(lo, 1)) /\ RatGt(Rat(hi, 1), x)
Between(lo, x, hi) == RatGt(x, Rat(lo, 1)) /\ RatGt(Rat(hi, 1), x)

\* the rules in their order: the four rules on lightness and saturation, then
\* the hue bands
ColorRules(h, s, l) ==
  << [ name |-> "Trang",      when |-> RatGeq(l, Rat(85, 1)) /\ RatLeq(s, Rat(15, 1)) ],
     [ name |-> "Den",        when |-> RatLeq(l, Rat(15, 1)) ],
     [ name |-> "Bac",        when |-> RatLeq(s, Rat(15, 1)) /\ Between(55, l, 85) ],
     [ name |-> "Xam",        when |-> RatLeq(s, Rat(15, 1)) ],
     [ name |-> "Do",         when |-> Within(0, h, 20) \/ FromBelow(340, h, 360) ],
     [ name |-> "Cam",        when |-> AboveUpTo(20, h, 45) ],
     [ name |-> "Vang",       when |-> AboveUpTo(45, h, 65) ],
     [ name |-> "Xanh la",    when |-> AboveUpTo(65, h, 160) ],
     [ name |-> "Xanh ngoc",  when |-> AboveUpTo(160, h, 200) ],
     [ name |-> "Xanh duong", when |-> AboveUpTo(200, h, 250) ],
     [ name |-> "Tim",        when |-> AboveUpTo(250, h, 290) ],
     [ name |-> "Hong",       when |-> Between(290, h, 340) ] >>

\* the rules that match, by their place in the order
Matching(t) ==
  LET rules == ColorRules(t.h, t.s, t.l)
  IN  { i \in DOMAIN rules : rules[i].when }

FirstMatching(t) == CHOOSE i \in Matching(t) : \A j \in Matching(t) : i <= j

\* C24: for every HSL triple the colour name is that of the first matching
\* rule in this order: l >= 85 and s <= 15 white; l <= 15 black, whatever the
\* saturation and hue; s <= 15 and 55 < l < 85 silver; s <= 15 gray; otherwise
\* the hue band: [0,20] or [340,360) red, (20,45] orange, (45,65] yellow,
\* (65,160] green, (160,200] cyan / teal, (200,250] blue, (250,290] purple,
\* (290,340) pink.
C24_FirstMatchingRule ==
  (kpc = "done" /\ kin.kind \in { "hsl", "rgb" }) =>
     /\ Matching(khsl) # {}
     /\ kname = ColorRules(khsl.h, khsl.s, khsl.l)[FirstMatching(khsl)].name

\* a saturated, dark triple that also lies in a hue band was named black
C24_Witness ==
  /\ kpc = "done" /\ kin.kind = "hsl"
  /\ RatLeq(khsl.l, Rat(15, 1)) /\ RatGt(khsl.s, Rat(15, 1))
  /\ Cardinality(Matching(khsl)) > 1
  /\ kname = "Den"

\* the pixels detectVehicleColor samples from the input image, in scan order
SampledPixels ==
  RegionData(kin.im, ColorRegion(kin.im.w, kin.im.h, kin.vehicleRegion))

\* the bucket of a channel value: the multiple q of 32 with q <= v <= q + 31
BucketOf(v) == CHOOSE q \in { 32 * i : i \in 0 .. 7 } : q <= v /\ v <= q + 31

\* what the claim says the dominant colour is, for one or more sampled pixels
ByLargestBucket(data) ==
  LET n == Len(data)
      bucket == Table([ i \in 1 .. n |->
                          << BucketOf(data[i][1]), BucketOf(data[i][2]), BucketOf(data[i][3]) >> ])
      members == Table([ i \in 1 .. n |-> { j \in 1 .. n : bucket[j] = bucket[i] } ])
      largest == { i \in 1 .. n : \A j \in 1 .. n :
                                    Cardinality(members[i]) >= Cardinality(members[j]) }
      \* the pixel that opened the largest bucket met first
      first == CHOOSE i \in largest : \A j \in largest : i <= j
      count == Cardinality(members[first])
      Total(ch) == SumRange([ j \in 1 .. n |-> IF j \in members[first] THEN data[j][ch] ELSE 0 ],
                            1, n)
      \* the mean Total / count rounded to the nearest whole number, halves upwards
      Mean(ch) == CHOOSE m \in 0 .. 255 :
                    /\ 2 * m * count <= 2 * Total(ch) + count
                    /\ 2 * Total(ch) + count < 2 * (m + 1) * count
  IN  [ rgb |-> [ r |-> Mean(1), g |-> Mean(2), b |-> Mean(3) ],
        bucket |-> bucket[first],
        confidence |-> Rat(count, n),
        mixed |-> Cardinality({ data[j] : j \in members[first] }) > 1,
        tied |-> Cardinality({ bucket[i] : i \in largest }) > 1 ]

\* C25: detectVehicleColor quantizes each sampled pixel's channels to 32-wide
\* buckets and returns as dominant colour the rounded per-channel mean of the
\* pixels in the bucket of highest count, the bucket first encountered in scan
\* order on equal counts; each returned channel lies inside that bucket's range
\* [q, q + 31] and in [0, 255], and confidence equals that bucket's pixel count
\* divided by the number of sampled pixels.
C25_DominantIsMeanOfLargestBucket ==
  (kpc = "done" /\ kin.kind = "image" /\ Len(SampledPixels) > 0) =>
    LET claimed == ByLargestBucket(SampledPixels)
        InBucket(v, q) == q <= v /\ v <= q + 31 /\ 0 <= v /\ v <= 255
    IN  /\ kout.some
        /\ kout.rgb = claimed.rgb
        /\ InBucket(kout.rgb.r, claimed.bucket[1])
        /\ InBucket(kout.rgb.g, claimed.bucket[2])
        /\ InBucket(kout.rgb.b, claimed.bucket[3])
        /\ SameNumber(kout.confidence, claimed.confidence)

\* the dominant colour was taken from a bucket that holds pixels of two colours
C25_Witness ==
  /\ kpc = "done" /\ kin.kind = "image" /\ Len(SampledPixels) > 0
  /\ ByLargestBucket(SampledPixels).mixed
  /\ kout.some /\ kout.rgb.r \notin { 0, 32, 64, 96, 128, 160, 192, 224 }

\* the dominant colour was taken from the first of two buckets of equal count
C25_WitnessTied ==
  /\ kpc = "done" /\ kin.kind = "image" /\ Len(SampledPixels) > 0
  /\ ByLargestBucket(SampledPixels).tied
  /\ kout.some

\* the twelve names of colours; the fallback name is not one of them
NamedColors ==
  { "Trang", "Den", "Bac", "Xam", "Do", "Cam", "Vang", "Xanh la", "Xanh ngoc",
    "Xanh duong", "Tim", "Hong" }

\* C30: for every RGB triple with channels in 0..255 the HSL conversion yields
\* a hue in [0, 360) and the classifier returns one of the twelve named
\* colours; detectVehicleColor never returns the fallback name, an empty
\* sampled region included.
C30_NeverTheFallbackName ==
  /\ (kin.kind = "rgb" /\ kpc \in { "name", "done" }) => FromBelow(0, khsl.h, 360)
  /\ (kin.kind = "rgb" /\ kpc = "done") => kname \in NamedColors
  /\ (kin.kind = "image" /\ kpc = "done") => (kout.some /\ kout.name \in NamedColors)

\* a triple whose red is largest and whose green is below its blue was named
C30_Witness ==
  /\ kin.kind = "rgb" /\ kpc = "done"
  /\ kin.r >= kin.b /\ kin.b > kin.g
  /\ RatGt(khsl.h, Rat(300, 1))
  /\ kname \in { "Do", "Hong" }

\* a colour was returned for a region of no pixels
C30_WitnessEmpty ==
  /\ kin.kind = "image" /\ kpc = "done"
  /\ Len(SampledPixels) = 0
  /\ kout.some /\ kout.name = "Den"

(***************************************************************************)
(* C26: the fields normalised by their maximum (specification SpecImage).  *)
(***************************************************************************)
\* the three fields the detectors normalise, each with its maximum: the
\* gradient magnitude (as squares), the horizontal edge field, the Laplacian
\* response
NormalizedFields(im) ==
  LET v == VehicleEdges(im)
      e == PlateEdges(im)
      r == LogoResponse(im)
  IN  { [ max |-> v.maxVal2,
          normalized |-> [ p \in Pixels(im.w, im.h) |-> Normalized(v.magnitude2[p], v.maxVal2) ] ],
        [ max |-> e.maxEdge,
          normalized |-> [ p \in Pixels(im.w, im.h) |-> Normalized(e.edgeData[p], e.maxEdge) ] ],
        [ max |-> r.maxResponse,
          normalized |-> [ p \in Pixels(im.w, im.h) |->
                             Normalized(r.responseData[p], r.maxResponse) ] ] }

\* C26: when the maximum of the gradient-magnitude or Laplacian-response
\* field is 0, normalization divides by no zero and every normalized value is
\* 0, not an undefined or not-a-number value.
C26_ZeroFieldNormalizesToZero ==
  ipc = "done" =>
    \A f \in NormalizedFields(img) :
      f.max = 0 =>
        \A p \in DOMAIN f.normalized :
          ~IsNaN(f.normalized[p]) /\ SameNumber(f.normalized[p], Rat(0, 1))

\* the detectors ran on an image of one or more pixels whose fields are all 0
C26_ZeroFieldReached ==
  /\ ipc = "done" /\ img.w > 0 /\ img.h > 0
  /\ \A f \in NormalizedFields(img) : f.max = 0

(***************************************************************************)
(* Claims about the auto upload, the initialized flag and setConfig        *)
(* (specification Spec).                                                   *)
(***************************************************************************)
\* the uploads of call c's result that the step starts
UploadsStarted(c) == { u \in uploads' \ uploads : u.call = c }

\* processImage call c leaves its last stretch in this step
LeavesBuild(c) == calls[c].pc = "build" /\ calls'[c].pc # "build"

\* C27: processImage starts a cloud upload of its result if and only if
\* config.autoUploadToCloud is true and the result's isReadyForCloud is true, at
\* most once per call and only after the result has been assembled; a failure
\* of that upload never makes processImage fail.
C27_AutoUploadIffConfiguredAndReady ==
  [][ \A c \in Calls :
        /\ LeavesBuild(c) =>
             LET result == built'[c]
             IN  /\ result.built
                 /\ (UploadsStarted(c) # {}) <=> (config.autoUploadToCloud /\ result.isReadyForCloud)
                 /\ (results'[c].cloudUploadStatus # "pending") <=> (UploadsStarted(c) # {})
                 /\ Cardinality(UploadsStarted(c)) <= 1
                 /\ \A u \in UploadsStarted(c) :
                      u.payload = prepareCloudPayload([ result EXCEPT !.cloudUploadStatus = "uploading" ])
                 \* whatever became of the upload, the call returns its result
                 /\ calls'[c].pc = "returned"
        /\ calls'[c].pc # "returned" =>
             /\ \A u \in uploads' : u.call # c
             /\ ~results'[c].built
    ]_vars

\* a call returned a ready result under autoUploadToCloud, uploaded
C27_Witness ==
  \E c \in Calls :
    /\ calls[c].pc = "returned" /\ config.autoUploadToCloud
    /\ built[c].isReadyForCloud /\ built[c].cloudUploadStatus = "pending"
    /\ results[c].cloudUploadStatus = "uploaded"
    /\ \E u \in uploads : u.call = c

\* a call returned a result that is not ready under autoUploadToCloud, not uploaded
C27_WitnessNotReady ==
  \E c \in Calls :
    /\ calls[c].pc = "returned" /\ config.autoUploadToCloud
    /\ ~built[c].isReadyForCloud
    /\ results[c].cloudUploadStatus = "pending"
    /\ \A u \in uploads : u.call # c

\* processImage call c starts in this step
Starts(c) == calls[c].pc = "idle" /\ calls'[c].pc # "idle"

\* call c failed with 'Service not initialized'
NotInitializedFailure(c) ==
  calls[c].pc = "threw" /\ calls[c].cause = "Service not initialized"

\* call c has read no image and run no detector
NothingDone(c) ==
  /\ calls[c].imageWidth = 0 /\ calls[c].imageHeight = 0
  /\ calls[c].vehicleRegion = Unset /\ calls[c].licensePlate = Unset
  /\ calls[c].logoRegion = Unset /\ calls[c].vehicleColor = Unset
  /\ calls[c].faulted = {}
  /\ \A t \in tensors : t.call # c
  /\ ~results[c].built /\ ~built[c].built

\* C28: in every sequence of initialize, dispose and processImage calls, a
\* processImage call that starts while the service is not initialized (before a
\* successful initialize, after a failed initialize, or after dispose) fails
\* with 'Service not initialized' without reading the image or running any
\* detector; isReady() is true exactly between a successful initialize and the
\* next dispose.
C28_NotInitializedFailsAtOnce ==
  /\ ~isReady
  /\ [][ /\ calls' # calls =>
              \A c \in Calls :
                /\ Starts(c) =>
                     /\ ~isReady => NotInitializedFailure(c)' /\ tensors' = tensors
                     /\ isReady => calls'[c].pc = "read"
                /\ NotInitializedFailure(c)' => NothingDone(c)'
                /\ NotInitializedFailure(c) => calls'[c] = calls[c]
         \* only a successful initialize sets the flag and only dispose clears it
         /\ (~isReady /\ isReady') => InitializeOk
         /\ (isReady /\ ~isReady') => Dispose
    ]_vars

\* a call failed with 'Service not initialized' on a service that had been
\* initialized before and is initialized again
C28_Witness ==
  \E c \in Calls : NotInitializedFailure(c) /\ NothingDone(c) /\ isReady

(***************************************************************************)
(* C29 (specification SpecConfig: the call started under DefaultConfig).   *)
(***************************************************************************)
\* what the detectors of call c found meets a threshold of cfg
MeetsThresholds(c, cfg) ==
  \/ calls[c].vehicleRegion.some
       /\ AtLeast(calls[c].vehicleRegion.confidence, cfg.minVehicleConfidence)
  \/ calls[c].licensePlate.some
       /\ AtLeast(calls[c].licensePlate.confidence, cfg.minPlateConfidence)

\* the step is a setConfig that was given exactly the options of patch
ChangesOnly(patch) ==
  /\ DOMAIN config' = DOMAIN config
  /\ \A k \in DOMAIN config : config'[k] = IF k \in DOMAIN patch THEN patch[k] ELSE config[k]

\* C29: the thresholds and the autoUploadToCloud flag used by a processImage
\* call are the configuration values in effect when the result is assembled,
\* not those in effect when the call started: a setConfig call that interleaves
\* with an in-flight processImage determines that call's isReadyForCloud and
\* whether it auto-uploads; setConfig changes only the options it is given and
\* leaves the others unchanged.
C29_ConfigReadAtAssembly ==
  /\ config = DefaultConfig
  /\ [][ /\ \A c \in Calls :
              LeavesBuild(c) =>
                /\ built'[c].isReadyForCloud <=> MeetsThresholds(c, config)
                /\ (UploadsStarted(c) # {}) <=>
                     (config.autoUploadToCloud /\ MeetsThresholds(c, config))
         /\ config' # config =>
              /\ \E patch \in ConfigPatches : ChangesOnly(patch)
              /\ \E c \in Calls : calls[c].pc \in InFlight
              /\ <<calls, results, built, uploads>>' = <<calls, results, built, uploads>>
    ]_vars

\* the call returned a result that is not ready, though it was ready by the
\* thresholds under which the call started
C29_Witness ==
  \E c \in Calls :
    /\ calls[c].pc = "returned"
    /\ ~built[c].isReadyForCloud
    /\ MeetsThresholds(c, DefaultConfig)

\* the call uploaded its result, though autoUploadToCloud was off when it
\* started, under thresholds set when one option had been set before
C29_WitnessUploaded ==
  \E c \in Calls :
    /\ calls[c].pc = "returned"
    /\ ~DefaultConfig.autoUploadToCloud
    /\ \E u \in uploads : u.call = c
    /\ config.minVehicleConfidence # DefaultConfig.minVehicleConfidence

====
